---- MODULE Spec2Model ----
(***************************************************************************)
(* Rule-evaluation and exception-sampling engine of the Mizrahi            *)
(* automations: the stratified exception sampler of the special-           *)
(* transactions validator and the rule checkers of the K.303 disclosure    *)
(* validator.                                                              *)
(***************************************************************************)
EXTENDS Integers, Sequences, FiniteSets, TLC

VARIABLES
    \* ---- smart_sample_exceptions (mizrahi_special_transactions.py) ----
    exceptions,      \* the exception list handed to the sampler
    max_count,       \* args.max_exceptions
    seed,            \* args.seed: an integer or None
    pc,              \* position inside smart_sample_exceptions
    rng,             \* state of random.Random(seed)
    reason_idx,      \* index of the stratum the first pass is at
    sampled,         \* the list under construction
    first_pass,      \* per-reason number of exceptions taken by the first pass
    pre_trim,        \* the assembled list right before the over-budget trim
    result,          \* the returned (sampled, original_count) pair or None
    invocation,      \* 1 or 2: which of the two invocations is running
    invocations,     \* how many invocations this run makes
    first_result,    \* what the first invocation returned
    \* ---- main() of disclosure_k303_validator.py (both copies) ----
    copy,            \* which copy of the validator runs: "mizrahi_5" or "root"
    all_funds,       \* the registry: fund id -> MutualFund
    trustee_name,    \* args.trustee_name
    manager_name,    \* args.manager_name (mizrahi_5 copy only)
    current_rows,    \* DisclosureRow list of the current month
    prev_rows,       \* DisclosureRow list of the previous month
    kpc,             \* position inside main()
    in_scope_fund_ids,
    exceptions_1a,
    exceptions_2a,
    exceptions_3,    \* rule id -> exception list
    expected_month,  \* args.report_month as <<year, month>>
    exceptions_1b,
    exceptions_2b,
    \* ---- get_full_code_description (disclosure_k303_validator.py) ----
    tcode,           \* the code argument
    tpc,             \* "call" before the call, "returned" after it
    tresult,         \* the returned description as a list of words
    \* ---- main() of mizrahi_special_transactions.py, checks #6 and #7 ----
    ppc,                  \* position inside main()
    txn_rows,             \* in_scope_rows: the TxnRow list
    oracle,               \* what the TASE page of a security yields
    variance_threshold,   \* args.price_threshold
    selenium_available,   \* SELENIUM_AVAILABLE
    driver_starts,        \* whether webdriver.Chrome(...) comes up
    skip_tase_prices,     \* args.skip_tase_prices
    cache_state,          \* args.cache_lists: "absent", "readable", "unreadable"
    samples,              \* the sampled rows, type by type
    pidx,                 \* index of the sample being fetched
    price_check_results,
    failed_url_count,
    price_limit_results,
    problematic_lists,    \* the dict as a list of <<list_type, securities>>
    problematic_security_results,
    \* ---- run_actor_and_wait / wait_for_run (Apify polling) ----
    implementation,  \* "shared", "test" or "downloader"
    timeout,         \* the timeout argument, in seconds
    poll_interval,   \* the poll_interval argument (3 in the test copy)
    apc,             \* position inside the function
    clock,           \* time.time(), in seconds since the call
    start,           \* start = time.time(), or None before it
    status,          \* the status of the last poll, or None
    run_data,        \* the returned run data (its status), or None
    \* ---- the description loop of get_full_code_description ----
    ddescs,          \* K303_CODE_INDEX.get(parent_code, "") of each parent code
    dpc,             \* "loop" inside the loop, "returned" after the return
    didx,            \* index of the parent code the loop is at
    dcombined,       \* combined
    dlast_merge,     \* <<current, new_desc>> of the last _merge_descriptions call
    dresult,         \* the returned description
    \* ---- fetch_tase_index_data (Mizrahi_4/mizrahi_4_logic.py) ----
    index_ids,       \* the index_ids argument
    ipc,             \* position inside the function
    iidx,            \* index of the index id the loop is at
    iresponse,       \* response.status_code of the last response, or None
    irequests,       \* per index id, the number of requests.get calls made
    ifirst,          \* per index id, how the first requests.get ended
    idata,           \* the keys of result.data, in order of insertion
    \* ---- main() of mizrahi_special_transactions.py, checks #1 to #7 ----
    mpc,             \* position inside main()
    mrows,           \* rows: the TxnRow list of the manager report
    min_scope_funds, \* in_scope_funds
    mex_dup,         \* ex_dup
    mex_date,        \* ex_date
    mex_decision,    \* ex_decision
    mex_price_type,  \* ex_price_type
    msamples,        \* samples: decision_1, decision_2
    mprice_checks,   \* price_check_results
    mprice_limits,   \* price_limit_results
    mproblematic     \* problematic_security_results

svars == <<exceptions, max_count, seed, pc, rng, reason_idx, sampled,
           first_pass, pre_trim, result, invocation, invocations, first_result>>

kvars == <<copy, all_funds, trustee_name, manager_name, current_rows, prev_rows,
           kpc, in_scope_fund_ids, exceptions_1a, exceptions_2a, exceptions_3,
           expected_month, exceptions_1b, exceptions_2b>>

\* what main() reads and never assigns
kinputs == <<copy, all_funds, trustee_name, manager_name, current_rows, prev_rows,
             expected_month>>

tvars == <<tcode, tpc, tresult>>

\* what checks #6 and #7 read and never assign
pinputs == <<txn_rows, oracle, variance_threshold, selenium_available,
             driver_starts, skip_tase_prices, cache_state>>

pvars == <<ppc, pinputs, samples, pidx, price_check_results, failed_url_count,
           price_limit_results, problematic_lists, problematic_security_results>>

ainputs == <<implementation, timeout, poll_interval>>

avars == <<ainputs, apc, clock, start, status, run_data>>

dvars == <<ddescs, dpc, didx, dcombined, dlast_merge, dresult>>

\* the variables of the remaining components
ivars == <<index_ids, ipc, iidx, iresponse, irequests, ifirst, idata>>

mvars == <<mpc, mrows, min_scope_funds, mex_dup, mex_date, mex_decision,
           mex_price_type, msamples, mprice_checks, mprice_limits, mproblematic>>

lvars == <<dvars, ivars, mvars>>

\* the variables of the components other than the sampler and the validator
others == <<tvars, pvars, avars, lvars>>

vars == <<svars, kvars, others>>

\* Python's None; an optional integer n is carried as <<n>>
None == <<>>

\* the validator is not running
ValidatorIdle ==
    /\ copy = "none"
    /\ all_funds = <<>>
    /\ trustee_name = <<>>
    /\ manager_name = <<>>
    /\ current_rows = <<>>
    /\ prev_rows = <<>>
    /\ kpc = "idle"
    /\ in_scope_fund_ids = {}
    /\ exceptions_1a = <<>>
    /\ exceptions_2a = <<>>
    /\ exceptions_3 = <<>>
    /\ expected_month = <<>>
    /\ exceptions_1b = <<>>
    /\ exceptions_2b = <<>>

\* the sampler is not running
SamplerIdle ==
    /\ exceptions = <<>>
    /\ max_count = 0
    /\ seed = <<>>
    /\ pc = "idle"
    /\ rng = <<>>
    /\ reason_idx = 0
    /\ sampled = <<>>
    /\ first_pass = <<>>
    /\ pre_trim = <<>>
    /\ result = <<>>
    /\ invocation = 0
    /\ invocations = 0
    /\ first_result = <<>>

\* no description is being resolved
ResolverIdle ==
    /\ tcode = <<>>
    /\ tpc = "idle"
    /\ tresult = <<>>

\* the special-transactions run is not at its checks #6 and #7
PriceIdle ==
    /\ ppc = "idle"
    /\ txn_rows = <<>>
    /\ oracle = <<>>
    /\ variance_threshold = <<>>
    /\ selenium_available = FALSE
    /\ driver_starts = FALSE
    /\ skip_tase_prices = FALSE
    /\ cache_state = "absent"
    /\ samples = <<>>
    /\ pidx = 0
    /\ price_check_results = <<>>
    /\ failed_url_count = 0
    /\ price_limit_results = <<>>
    /\ problematic_lists = <<>>
    /\ problematic_security_results = <<>>

\* no actor run is being waited for
ApifyIdle ==
    /\ implementation = "none"
    /\ timeout = 0
    /\ poll_interval = 0
    /\ apc = "idle"
    /\ clock = 0
    /\ start = <<>>
    /\ status = <<>>
    /\ run_data = <<>>

\* no description is being built
DescriptionIdle ==
    /\ ddescs = <<>>
    /\ dpc = "idle"
    /\ didx = 0
    /\ dcombined = <<>>
    /\ dlast_merge = <<>>
    /\ dresult = <<>>

IndexIdle ==
    /\ index_ids = <<>>
    /\ ipc = "idle"
    /\ iidx = 0
    /\ iresponse = <<>>
    /\ irequests = <<>>
    /\ ifirst = <<>>
    /\ idata = <<>>

SpotIdle ==
    /\ mpc = "idle"
    /\ mrows = <<>>
    /\ min_scope_funds = {}
    /\ mex_dup = <<>>
    /\ mex_date = <<>>
    /\ mex_decision = <<>>
    /\ mex_price_type = <<>>
    /\ msamples = <<>>
    /\ mprice_checks = <<>>
    /\ mprice_limits = <<>>
    /\ mproblematic = <<>>

LaterIdle == DescriptionIdle /\ IndexIdle /\ SpotIdle

RestIdle == ResolverIdle /\ PriceIdle /\ ApifyIdle /\ LaterIdle

\* ------------------------------------------------------------------------
\* Bounds of the model
\* ------------------------------------------------------------------------
MaxExceptions == 6      \* longest exception list
MaxReasons == 3         \* distinct reasons in one list
MaxSeed == 1            \* integer seeds 0..MaxSeed
MaxRepeatLen == 3       \* longest list that is sampled twice
MaxFund == 3            \* fund ids 1..MaxFund
MaxReportRows == 2      \* rows of a report in the completeness inputs
MaxCurRows == 2         \* rows of the current report in the delta inputs
MaxPrevRows == 1        \* rows of the previous report in the delta inputs
MaxComboRows == 3         \* rows of the report in the combination inputs
MaxExposureRows == 3      \* rows of the report in the exposure inputs
MaxDateRows == 2          \* rows of the report in the date inputs
MaxCodeLen == 4           \* characters of a code handed to the resolver
MaxTxnRows == 3           \* transaction rows in the price-check inputs
MaxTimeout == 3           \* timeout arguments 0..MaxTimeout
MaxPollInterval == 2      \* poll_interval arguments 0..MaxPollInterval
MaxLatency == 2           \* a request takes 1..MaxLatency seconds
MaxDescs == 3             \* parent codes of a code in the description inputs
MaxWords == 2             \* words of one index description
MaxIndexIds == 3          \* index ids handed to fetch_tase_index_data
MaxSpotRows == 3          \* rows of a manager report in the spot-check inputs

\* ------------------------------------------------------------------------
\* Helpers on sequences
\* ------------------------------------------------------------------------
Range(s) == {s[i] : i \in DOMAIN s}

Max2(a, b) == IF a >= b THEN a ELSE b

Min2(a, b) == IF a <= b THEN a ELSE b

\* list.sort(key=...): Python's sort is stable; insertion sort by key
RECURSIVE InsertByRow(_, _)
InsertByRow(s, e) ==
    IF s = <<>> THEN <<e>>
    ELSE IF s[Len(s)].row_num <= e.row_num THEN Append(s, e)
    ELSE Append(InsertByRow(SubSeq(s, 1, Len(s) - 1), e), s[Len(s)])

RECURSIVE SortByRowNum(_)
SortByRowNum(s) ==
    IF s = <<>> THEN <<>>
    ELSE InsertByRow(SortByRowNum(SubSeq(s, 1, Len(s) - 1)), s[Len(s)])

\* ------------------------------------------------------------------------
\* random.Random(seed)
\* ------------------------------------------------------------------------
\* A seeded generator is a deterministic stream that is a function of the
\* seed; Random(None) seeds itself from the operating system's entropy, so
\* every draw of such a generator can come out any way.
NewRandom(sd) ==
    IF sd = None THEN [seeded |-> FALSE, s |-> 0]
    ELSE [seeded |-> TRUE, s |-> (sd[1] * 7 + 3) % 64]

\* _randbelow(n): the set of <<value, next generator state>> outcomes
RandBelow(g, n) ==
    IF g.seeded
    THEN {<<(g.s \div 4) % n, [g EXCEPT !.s = (g.s * 13 + 11) % 64]>>}
    ELSE {<<j, g>> : j \in 0 .. n - 1}

\* random.sample(population, k), the pool branch (n <= 21):
\*   for i in range(k): j = randbelow(n-i); result[i] = pool[j];
\*                      pool[j] = pool[n-i-1]
\* The set of <<result, next generator state>> outcomes.
RECURSIVE SampleLoop(_, _, _, _, _)
SampleLoop(pool, n, k, i, g) ==
    IF i = k THEN {<<<<>>, g>>}
    ELSE UNION {
        LET j == d[1] + 1
            pool2 == [pool EXCEPT ![j] = pool[n - i]]
        IN {<<(<<pool[j]>> \o r[1]), r[2]>> : r \in SampleLoop(pool2, n, k, i + 1, d[2])}
        : d \in RandBelow(g, n - i)}

Sample(population, k, g) == SampleLoop(population, Len(population), k, 0, g)

\* ------------------------------------------------------------------------
\* smart_sample_exceptions
\* ------------------------------------------------------------------------
\* by_reason.keys(): the distinct reasons in order of first occurrence
RECURSIVE ReasonKeys(_)
ReasonKeys(excs) ==
    IF excs = <<>> THEN <<>>
    ELSE LET front == ReasonKeys(SubSeq(excs, 1, Len(excs) - 1))
             q == excs[Len(excs)].reason
         IN IF q \in Range(front) THEN front ELSE Append(front, q)

\* by_reason[reason]
ByReason(excs, q) == SelectSeq(excs, LAMBDA e : e.reason = q)

\* the proportional target rounded to the nearest integer
TargetCountRounded(n, total, maxc) == Max2(1, (2 * n * maxc + total) \div (2 * total))

\* max(1, int(proportion * max_count)) with proportion = n / original_count.
\* int() truncates; for the list lengths explored the double-precision
\* product truncates to the same integer as the exact quotient.
TargetCount(n, total, maxc) == Max2(1, (n * maxc) \div total)

\* a fill step that draws from the whole input
UnsampledOrNot(excs, smp) == excs

\* sampled_set / unsampled of the fill step
Unsampled(excs, smp) ==
    LET sampled_set == {<<e.row_num, e.reason>> : e \in Range(smp)}
    IN SelectSeq(excs, LAMBDA e : <<e.row_num, e.reason>> \notin sampled_set)

\* the fill step drawing one exception fewer than the remaining budget
FillCountOneShort(remaining_budget, available) == Min2(remaining_budget - 1, available)

\* min(remaining_budget, len(unsampled)): how many the fill step draws
FillCount(remaining_budget, available) == Min2(remaining_budget, available)

\* ------------------------------------------------------------------------
\* Exception lists the checks of main() hand to the sampler
\* ------------------------------------------------------------------------
\* Every check emits at most one exception per row (TYPE_REQUIRES_DECISION_1
\* and TYPE_REQUIRES_DECISION_1_OR_2 are disjoint), so row numbers are
\* distinct within a list.  check_3 and check_4 emit in row order; check_1
\* and check_4c emit group by group, so their lists are not ascending.
\* Row numbers start at 2 (row 1 is the header).
RowNumAscending(i, n) == i + 1

RowNumGrouped(i, n) ==
    LET half == (n + 1) \div 2
    IN IF i <= half THEN 2 * i ELSE 2 * (i - half) + 1

RowNumOf(layout, i, n) ==
    IF layout = "row_order" THEN RowNumAscending(i, n) ELSE RowNumGrouped(i, n)

\* Reasons are opaque strings that are only compared for equality and kept
\* in order of first occurrence; reason k stands for the k-th distinct
\* string of the list.
ReasonAssignments(n) ==
    {f \in [1 .. n -> 1 .. MaxReasons] :
        \A i \in 1 .. n :
            f[i] <= 1 + (IF i = 1 THEN 0
                         ELSE CHOOSE m \in 1 .. MaxReasons :
                                /\ \E j \in 1 .. i - 1 : f[j] = m
                                /\ \A j \in 1 .. i - 1 : f[j] <= m)}

ExceptionLists ==
    UNION {
        {[i \in 1 .. n |-> [row_num |-> RowNumOf(layout, i, n), reason |-> f[i]]]
            : f \in ReasonAssignments(n), layout \in {"row_order", "group_order"}}
        : n \in 1 .. MaxExceptions}

Seeds == {None} \cup {<<n>> : n \in 0 .. MaxSeed}

InitSampler ==
    /\ exceptions \in ExceptionLists
    /\ max_count \in 1 .. MaxExceptions
    /\ seed \in Seeds
    /\ pc = "start"
    /\ rng = None
    /\ reason_idx = 0
    /\ sampled = <<>>
    /\ first_pass = <<>>
    /\ pre_trim = <<>>
    /\ result = None
    /\ invocation = 1
    /\ invocations = IF Len(exceptions) <= MaxRepeatLen THEN 2 ELSE 1
    /\ first_result = None
    /\ ValidatorIdle
    /\ RestIdle

\* lines 903-906: if original_count <= max_count: return exceptions, original_count
PassThroughSorted(excs) == <<SortByRowNum(excs), Len(excs)>>

PassThroughResult(excs) == <<excs, Len(excs)>>

PassThrough ==
    /\ pc = "start"
    /\ Len(exceptions) <= max_count
    /\ result' = PassThroughResult(exceptions)
    /\ pc' = "returned"
    /\ UNCHANGED <<exceptions, max_count, seed, rng, reason_idx, sampled,
                   first_pass, pre_trim, invocation, invocations, first_result>>
    /\ UNCHANGED kvars
    /\ UNCHANGED others

\* lines 908-918: rng = random.Random(seed); group by reason
BeginSampling ==
    /\ pc = "start"
    /\ Len(exceptions) > max_count
    /\ rng' = NewRandom(seed)
    /\ sampled' = <<>>
    /\ first_pass' = <<>>
    /\ reason_idx' = 1
    /\ pc' = "first_pass"
    /\ UNCHANGED <<exceptions, max_count, seed, pre_trim, result,
                   invocation, invocations, first_result>>
    /\ UNCHANGED kvars
    /\ UNCHANGED others

\* lines 921-930: one iteration of the first pass
FirstPass ==
    /\ pc = "first_pass"
    /\ reason_idx <= Len(ReasonKeys(exceptions))
    /\ LET reason == ReasonKeys(exceptions)[reason_idx]
           reason_exceptions == ByReason(exceptions, reason)
           target_count == TargetCount(Len(reason_exceptions), Len(exceptions), max_count)
       IN IF Len(reason_exceptions) <= target_count
          THEN /\ sampled' = sampled \o reason_exceptions
               /\ first_pass' = Append(first_pass, Len(reason_exceptions))
               /\ rng' = rng
          ELSE \E o \in Sample(reason_exceptions, target_count, rng) :
               /\ sampled' = sampled \o o[1]
               /\ first_pass' = Append(first_pass, Len(o[1]))
               /\ rng' = o[2]
    /\ reason_idx' = reason_idx + 1
    /\ UNCHANGED <<exceptions, max_count, seed, pc, pre_trim, result,
                   invocation, invocations, first_result>>
    /\ UNCHANGED kvars
    /\ UNCHANGED others

\* lines 933-939: fill the remaining budget from the unsampled pool
Fill ==
    /\ pc = "first_pass"
    /\ reason_idx > Len(ReasonKeys(exceptions))
    /\ LET remaining_budget == max_count - Len(sampled)
           unsampled == Unsampled(exceptions, sampled)
       IN IF remaining_budget > 0 /\ unsampled # <<>>
          THEN \E o \in Sample(unsampled, FillCount(remaining_budget, Len(unsampled)), rng) :
               /\ sampled' = sampled \o o[1]
               /\ rng' = o[2]
          ELSE UNCHANGED <<sampled, rng>>
    /\ pc' = "trim"
    /\ UNCHANGED <<exceptions, max_count, seed, reason_idx, first_pass, pre_trim,
                   result, invocation, invocations, first_result>>
    /\ UNCHANGED kvars
    /\ UNCHANGED others

\* lines 942-943: if len(sampled) > max_count: sampled = rng.sample(sampled, max_count)
Trim ==
    /\ pc = "trim"
    /\ pre_trim' = sampled
    /\ IF Len(sampled) > max_count
       THEN \E o \in Sample(sampled, max_count, rng) :
            /\ sampled' = o[1]
            /\ rng' = o[2]
       ELSE UNCHANGED <<sampled, rng>>
    /\ pc' = "sort"
    /\ UNCHANGED <<exceptions, max_count, seed, reason_idx, first_pass,
                   result, invocation, invocations, first_result>>
    /\ UNCHANGED kvars
    /\ UNCHANGED others

\* lines 946-949: sampled.sort(key=row_num); return sampled, original_count
SortAndReturn ==
    /\ pc = "sort"
    /\ sampled' = SortByRowNum(sampled)
    /\ result' = <<SortByRowNum(sampled), Len(exceptions)>>
    /\ pc' = "returned"
    /\ UNCHANGED <<exceptions, max_count, seed, rng, reason_idx, first_pass,
                   pre_trim, invocation, invocations, first_result>>
    /\ UNCHANGED kvars
    /\ UNCHANGED others

\* a second run of the program on the same input with the same --seed
InvokeAgain ==
    /\ pc = "returned"
    /\ invocation < invocations
    /\ first_result' = result
    /\ invocation' = invocation + 1
    /\ pc' = "start"
    /\ rng' = None
    /\ reason_idx' = 0
    /\ sampled' = <<>>
    /\ first_pass' = <<>>
    /\ pre_trim' = <<>>
    /\ result' = None
    /\ UNCHANGED <<exceptions, max_count, seed, invocations>>
    /\ UNCHANGED kvars
    /\ UNCHANGED others

NextSampler ==
    \/ PassThrough
    \/ BeginSampling
    \/ FirstPass
    \/ Fill
    \/ Trim
    \/ SortAndReturn
    \/ InvokeAgain

SpecSampler == InitSampler /\ [][NextSampler]_vars

\* ------------------------------------------------------------------------
\* Claims about the sampler
\* ------------------------------------------------------------------------
Returned == pc = "returned"

Sampling == Len(exceptions) > max_count

ResultReasons == {e.reason : e \in Range(result[1])}

\* C1: whenever more exceptions than max_count are given and max_count is at
\* least the number of distinct reasons, every distinct reason of the input
\* occurs on some exception of the returned sample.
SamplerCoverage ==
    (Returned /\ Sampling /\ max_count >= Len(ReasonKeys(exceptions)))
        => Range(ReasonKeys(exceptions)) \subseteq ResultReasons

\* C2: whenever more exceptions than max_count are given (max_count >= 1),
\* the returned list has exactly max_count elements and the returned
\* original_count is the length of the input.
SamplerSize ==
    (Returned /\ Sampling)
        => /\ Len(result[1]) = max_count
           /\ result[2] = Len(exceptions)

\* C2 witness: a sampling run in which the first pass overshot and the trim
\* drew the list down, and it returned.
SamplerSizeWitness ==
    /\ Returned
    /\ Sampling
    /\ Len(pre_trim) > max_count
    /\ Len(result[1]) = max_count

\* C3: a second invocation with the same exceptions, max_count and seed
\* returns the same list in the same order as the first, whatever seed main()
\* passes, the None of a run without --seed included.
SamplerDeterminism ==
    (Returned /\ invocation = 2) => result = first_result

\* ========================================================================
\* K.303 disclosure validator
\* ========================================================================
\* Strings are sequences of characters; codes are sequences of digits
\* ("080201" is <<0,8,0,2,0,1>>).  A level that is None or "" is <<>>.
SP == " "

\* str.startswith
StartsWith(c, prefix) ==
    /\ Len(c) >= Len(prefix)
    /\ SubSeq(c, 1, Len(prefix)) = prefix

\* needle in haystack (substring test on str)
Contains(haystack, needle) ==
    \E i \in 0 .. Len(haystack) - Len(needle) :
        SubSeq(haystack, i + 1, i + Len(needle)) = needle

\* _norm_spaces: " ".join((s or "").strip().split())
RECURSIVE NormSpaces(_)
NormSpaces(str) ==
    IF str = <<>> THEN <<>>
    ELSE IF Head(str) = SP THEN NormSpaces(Tail(str))
    ELSE IF Len(str) = 1 THEN str
    ELSE IF str[2] # SP THEN <<Head(str)>> \o NormSpaces(Tail(str))
    ELSE LET rest == NormSpaces(Tail(str))
         IN IF rest = <<>> THEN <<Head(str)>> ELSE <<Head(str), SP>> \o rest

\* str < str (lexicographic, a proper prefix is smaller)
RECURSIVE StrLess(_, _)
StrLess(a, b) ==
    IF b = <<>> THEN FALSE
    ELSE IF a = <<>> THEN TRUE
    ELSE IF Head(a) # Head(b) THEN Head(a) < Head(b)
    ELSE StrLess(Tail(a), Tail(b))

\* sorted(set of int)
RECURSIVE SortedInts(_)
SortedInts(S) ==
    IF S = {} THEN <<>>
    ELSE LET m == CHOOSE x \in S : \A y \in S : x <= y
         IN <<m>> \o SortedInts(S \ {m})

\* DisclosureRow.effective_code: the most granular non-empty level
EffectiveCode(row) ==
    IF row.level_4 # <<>> THEN row.level_4
    ELSE IF row.level_3 # <<>> THEN row.level_3
    ELSE IF row.level_2 # <<>> THEN row.level_2
    ELSE IF row.level_1 # <<>> THEN row.level_1
    ELSE None

\* row.fund_no in fund_ids (fund_no is None or <<n>>)
\* a test that takes the rows of every fund
FundNoGiven(row, fund_ids) == row.fund_no # None

FundNoIn(row, fund_ids) == row.fund_no # None /\ row.fund_no[1] \in fund_ids

\* get_in_scope_fund_ids (mizrahi_5 copy): substring tests against the
\* normalised registry names; an empty filter matches every fund
GetInScopeFundIds(funds, trustee, manager) ==
    {fund_id \in DOMAIN funds :
        /\ ~(trustee # <<>> /\ ~Contains(NormSpaces(funds[fund_id].trustee_name), trustee))
        /\ ~(manager # <<>> /\ ~Contains(NormSpaces(funds[fund_id].manager_name), manager))}

\* get_trustee_fund_ids (root copy): equality of the normalised names
GetTrusteeFundIds(funds, trustee) ==
    {fund_id \in DOMAIN funds :
        NormSpaces(funds[fund_id].trustee_name) = NormSpaces(trustee)}

\* load_mizrahi_fund_ids (special-transactions validator): rows without a
\* trustee cell are skipped, the others are compared by equality of the
\* normalised names
LoadMizrahiFundIds(funds, trustee) ==
    {fund_id \in DOMAIN funds :
        /\ funds[fund_id].trustee_name # None
        /\ NormSpaces(funds[fund_id].trustee_name) = NormSpaces(trustee)}

\* funds_in_report = set(r.fund_no for r in rows if r.fund_no is not None)
FundsInReport(rows) == {r.fund_no[1] : r \in {x \in Range(rows) : x.fund_no # None}}

\* ------------------------------------------------------------------------
\* check_1a_fund_completeness
\* ------------------------------------------------------------------------
MissingException(fund_id) ==
    [check_id |-> "1a", reason |-> "fund missing from report", fund_no |-> fund_id]

NotInRegistryException(fund_id) ==
    [check_id |-> "1a", reason |-> "fund not in registry", fund_no |-> fund_id]

\* the in-scope set with nothing subtracted
MissingFromReportAll(rows, mizrahi_fund_ids) == mizrahi_fund_ids

\* the difference taken the wrong way round
MissingFromReportReversed(rows, mizrahi_fund_ids) == FundsInReport(rows) \ mizrahi_fund_ids

\* missing_from_report = mizrahi_fund_ids - funds_in_report
MissingFromReport(rows, mizrahi_fund_ids) == mizrahi_fund_ids \ FundsInReport(rows)

\* every fund of the report that is out of scope, registry members included
ExtraAll(rows, mizrahi_fund_ids, funds) == FundsInReport(rows) \ mizrahi_fund_ids

\* funds in report, not in scope, and not a key of all_funds
ExtraUnknown(rows, mizrahi_fund_ids, funds) ==
    {fund_id \in FundsInReport(rows) \ mizrahi_fund_ids : fund_id \notin DOMAIN funds}

Check1aFundCompleteness(rows, mizrahi_fund_ids, funds) ==
    LET missing_from_report == SortedInts(MissingFromReport(rows, mizrahi_fund_ids))
        extra == SortedInts(ExtraUnknown(rows, mizrahi_fund_ids, funds))
    IN [i \in 1 .. Len(missing_from_report) |-> MissingException(missing_from_report[i])]
       \o [i \in 1 .. Len(extra) |-> NotInRegistryException(extra[i])]

\* ------------------------------------------------------------------------
\* check_2a_prev_month_comparison
\* ------------------------------------------------------------------------
\* A percentage is a Python float.  The floats of the reports are
\* non-negative multiples of 2^-52 below 2^26, carried exactly as <<a, b, c>>
\* for a + b / 2^26 + c / 2^52; a missing percentage is None, a present one
\* <<float>>.
Limb == 2 ^ 26

FZero == <<0, 0, 0>>

FLess(x, y) ==
    \/ x[1] < y[1]
    \/ x[1] = y[1] /\ x[2] < y[2]
    \/ x[1] = y[1] /\ x[2] = y[2] /\ x[3] < y[3]

\* the exact sum and (for x >= y) the exact difference, limb by limb
FAddExact(x, y) ==
    LET c == x[3] + y[3]
        b == x[2] + y[2] + (c \div Limb)
    IN <<x[1] + y[1] + (b \div Limb), b % Limb, c % Limb>>

FSubExact(x, y) ==
    LET c == x[3] - y[3]
        b == x[2] - y[2] + (c \div Limb)
    IN <<x[1] - y[1] + (b \div Limb), b % Limb, c % Limb>>

RECURSIVE Log2(_)
Log2(n) == IF n < 2 THEN 0 ELSE 1 + Log2(n \div 2)

\* round to nearest, ties to even, at 53 significant bits: a value in
\* [2^k, 2^(k+1)) keeps the multiples of 2^(k-52)
FRound(x) ==
    LET q == 2 ^ Log2(x[1])
        rem == x[3] % q
        down == <<x[1], x[2], x[3] - rem>>
        up == FAddExact(down, <<0, 0, q>>)
    IN IF 2 * rem < q THEN down
       ELSE IF 2 * rem > q THEN up
       ELSE IF ((x[3] - rem) \div q) % 2 = 0 THEN down ELSE up

\* float + float
FAdd(x, y) == FRound(FAddExact(x, y))

\* abs(x - y)
FAbsDiff(x, y) == FRound(IF FLess(x, y) THEN FSubExact(y, x) ELSE FSubExact(x, y))

\* _to_float: float(str(v).strip()) of a percentage written with two
\* decimals, given in hundredths: the nearest float
\* (6.1 = 0x1.8666666666666p+2, 10.01 = 0x1.4051eb851eb85p+3,
\*  16.1 = 0x1.019999999999ap+4)
ToFloat(h) ==
    CASE h = 0 -> FZero
      [] h = 610 -> <<6, 6710886, 26843544>>
      [] h = 1000 -> <<10, 0, 0>>
      [] h = 1001 -> <<10, 671088, 42949672>>
      [] h = 1610 -> <<16, 6710886, 26843552>>
      [] h = 2000 -> <<20, 0, 0>>
      [] h = 4000 -> <<40, 0, 0>>
      [] h = 100 -> <<1, 0, 0>>
      [] h = 106 -> <<1, 4026531, 56371446>>
      [] h = 794 -> <<7, 63082332, 10737420>>
      [] h = 3000 -> <<30, 0, 0>>
      [] h = 200 -> <<2, 0, 0>>
      [] h = 210 -> <<2, 6710886, 26843546>>
      [] h = 220 -> <<2, 13421772, 53687092>>
      [] h = 500 -> <<5, 0, 0>>
      [] h = 10100 -> <<101, 0, 0>>

\* the 10.0 of `if delta > 10.0`
DeltaThreshold == <<10, 0, 0>>

\* an update that keeps the value of the last row of a key
LookupPut(lookup, key, pct) ==
    IF key \in DOMAIN lookup
    THEN [lookup EXCEPT ![key] = pct]
    ELSE lookup @@ (key :> FAdd(FZero, pct))

\* lookup[key] = lookup.get(key, 0) + row.percent_from_fund
LookupAdd(lookup, key, pct) ==
    IF key \in DOMAIN lookup
    THEN [lookup EXCEPT ![key] = FAdd(@, pct)]
    ELSE lookup @@ (key :> FAdd(FZero, pct))

\* build_lookup: (fund_no, effective_code) -> sum of percent_from_fund
RECURSIVE BuildLookup(_, _)
BuildLookup(rows, fund_ids) ==
    IF rows = <<>> THEN <<>>
    ELSE LET lookup == BuildLookup(SubSeq(rows, 1, Len(rows) - 1), fund_ids)
             row == rows[Len(rows)]
             code == EffectiveCode(row)
         IN IF ~FundNoIn(row, fund_ids) THEN lookup
            ELSE IF code # <<>> /\ row.percent_from_fund # None
            THEN LET key == <<row.fund_no[1], code>>
                     pct == row.percent_from_fund[1]
                 IN LookupAdd(lookup, key, pct)
            ELSE lookup

\* lookup.get(key): None or <<value>>
LookupGet(lookup, key) == IF key \in DOMAIN lookup THEN <<lookup[key]>> ELSE None

\* tuple order of sorted(all_keys): by fund number, then by code string
KeyLess(a, b) == a[1] < b[1] \/ (a[1] = b[1] /\ StrLess(a[2], b[2]))

RECURSIVE SortedKeys(_)
SortedKeys(S) ==
    IF S = {} THEN <<>>
    ELSE LET m == CHOOSE x \in S : \A y \in S \ {x} : KeyLess(x, y)
         IN <<m>> \o SortedKeys(S \ {m})

\* a threshold test against twice the threshold
ExceedsThresholdTwice(delta) == FLess(FAddExact(DeltaThreshold, DeltaThreshold), delta)

\* does the delta of two present values count as a deviation
ExceedsThreshold(delta) == FLess(DeltaThreshold, delta)

\* a loop body that reports a removed code as a new one
Check2aKeySwapped(current_lookup, prev_lookup, key) ==
    LET current_pct == LookupGet(current_lookup, key)
        prev_pct == LookupGet(prev_lookup, key)
    IN IF current_pct # prev_pct /\ (current_pct = None \/ prev_pct = None)
       THEN <<[check_id |-> "2a", reason |-> "new code",
               fund_no |-> key[1], effective_code |-> key[2],
               percent_from_fund |-> current_pct,
               extra_info |-> [prev_pct |-> None, delta |-> None]]>>
       ELSE <<>>

\* the body of the loop over sorted(all_keys): the exceptions of one key
\* (extra_info.fund_type, a display field of the mizrahi_5 copy, is left out;
\* delta = None stands for an extra_info without a "delta" entry)
Check2aKey(current_lookup, prev_lookup, key) ==
    LET current_pct == LookupGet(current_lookup, key)
        prev_pct == LookupGet(prev_lookup, key)
    IN IF current_pct = None /\ prev_pct # None
       THEN <<[check_id |-> "2a", reason |-> "code disappeared",
               fund_no |-> key[1], effective_code |-> key[2],
               percent_from_fund |-> None,
               extra_info |-> [prev_pct |-> prev_pct, delta |-> None]]>>
       ELSE IF current_pct # None /\ prev_pct = None
       THEN <<[check_id |-> "2a", reason |-> "new code",
               fund_no |-> key[1], effective_code |-> key[2],
               percent_from_fund |-> current_pct,
               extra_info |-> [prev_pct |-> None, delta |-> None]]>>
       ELSE IF current_pct # None /\ prev_pct # None
       THEN LET delta == FAbsDiff(current_pct[1], prev_pct[1])
            IN IF ExceedsThreshold(delta)
               THEN <<[check_id |-> "2a", reason |-> "deviation",
                       fund_no |-> key[1], effective_code |-> key[2],
                       percent_from_fund |-> current_pct,
                       extra_info |-> [prev_pct |-> prev_pct, delta |-> <<delta>>]]>>
               ELSE <<>>
       ELSE <<>>

RECURSIVE Check2aLoop(_, _, _)
Check2aLoop(current_lookup, prev_lookup, keys) ==
    IF keys = <<>> THEN <<>>
    ELSE Check2aKey(current_lookup, prev_lookup, Head(keys))
         \o Check2aLoop(current_lookup, prev_lookup, Tail(keys))

Check2aPrevMonthComparison(cur_rows, prv_rows, mizrahi_fund_ids) ==
    LET current_lookup == BuildLookup(cur_rows, mizrahi_fund_ids)
        prev_lookup == BuildLookup(prv_rows, mizrahi_fund_ids)
        all_keys == DOMAIN current_lookup \cup DOMAIN prev_lookup
    IN Check2aLoop(current_lookup, prev_lookup, SortedKeys(all_keys))

\* ------------------------------------------------------------------------
\* check_3_combinations
\* ------------------------------------------------------------------------
c03 == <<0, 3>>
c06 == <<0, 6>>
c07 == <<0, 7>>
c08 == <<0, 8>>
c0102 == <<0, 1, 0, 2>>
c0302 == <<0, 3, 0, 2>>
c0502 == <<0, 5, 0, 2>>
c03010101 == <<0, 3, 0, 1, 0, 1, 0, 1>>
c03010102 == <<0, 3, 0, 1, 0, 1, 0, 2>>
c03010103 == <<0, 3, 0, 1, 0, 1, 0, 3>>
c03010201 == <<0, 3, 0, 1, 0, 2, 0, 1>>
c03010202 == <<0, 3, 0, 1, 0, 2, 0, 2>>
c03010203 == <<0, 3, 0, 1, 0, 2, 0, 3>>
c03010204 == <<0, 3, 0, 1, 0, 2, 0, 4>>
c080201 == <<0, 8, 0, 2, 0, 1>>
c080202 == <<0, 8, 0, 2, 0, 2>>
c080203 == <<0, 8, 0, 2, 0, 3>>
c080204 == <<0, 8, 0, 2, 0, 4>>
c080205 == <<0, 8, 0, 2, 0, 5>>
c080206 == <<0, 8, 0, 2, 0, 6>>

\* the keys of `results` (3 alef .. 3 het in the source)
RuleIds == {"3_alef", "3_bet", "3_gimel", "3_dalet", "3_he", "3_vav", "3_zayin", "3_het"}

PairwiseRuleIds == {"3_gimel", "3_dalet", "3_he", "3_zayin", "3_het"}

\* the two codes each pairwise block tests, in the order (first, second) of
\* its if / elif; the copies pair 3_gimel and 3_dalet differently
PairRule(which, rule) ==
    IF rule = "3_gimel"
    THEN IF which = "mizrahi_5" THEN <<c03010101, c080202>> ELSE <<c03010101, c080201>>
    ELSE IF rule = "3_dalet"
    THEN IF which = "mizrahi_5" THEN <<c03010102, c080201>> ELSE <<c03010102, c080202>>
    ELSE IF rule = "3_he" THEN <<c03010103, c080203>>
    ELSE IF rule = "3_zayin" THEN <<c03010201, c080205>>
    ELSE <<c03010204, c080206>>

ComboException(rule, fund_no, found, missing) ==
    [check_id |-> rule, fund_no |-> fund_no, found |-> found, missing |-> missing]

\* fund_rows keys in insertion order: in-scope funds by first row
RECURSIVE FundOrder(_, _)
FundOrder(rows, fund_ids) ==
    IF rows = <<>> THEN <<>>
    ELSE LET front == FundOrder(SubSeq(rows, 1, Len(rows) - 1), fund_ids)
             row == rows[Len(rows)]
         IN IF FundNoIn(row, fund_ids) /\ row.fund_no[1] \notin Range(front)
            THEN Append(front, row.fund_no[1])
            ELSE front

\* fund_rows[fund_no]
FundRows(rows, fund_no) == SelectSeq(rows, LAMBDA r : r.fund_no = <<fund_no>>)

\* codes / tier1_codes / tier2_codes of one fund
EffectiveCodes(rows) == {EffectiveCode(r) : r \in Range(rows)} \ {<<>>}

Tier1Codes(rows) == {r.level_1 : r \in Range(rows)} \ {<<>>}

Tier2Codes(rows) == {r.level_2 : r \in Range(rows)} \ {<<>>}

\* the list of those of `wanted` that are in `present`, in the order of `wanted`
FoundIn(wanted, present) == SelectSeq(wanted, LAMBDA c : c \in present)

\* Check 3_alef: {0102, 0302, 0502} <-> 06*, over the TIER 2 values
Check3Alef(which, fund_no, tier2_codes) ==
    LET fx_codes_found == FoundIn(<<c0102, c0302, c0502>>, tier2_codes)
        fx_related == Len(fx_codes_found) > 0
        has_06 == \E c \in tier2_codes : StartsWith(c, c06)
    IN IF fx_related /\ ~has_06
       THEN <<ComboException("3_alef", fund_no,
                 IF which = "mizrahi_5" THEN fx_codes_found ELSE <<c0102, c0302, c0502>>,
                 <<c06>>)>>
       ELSE IF has_06 /\ ~fx_related
       THEN <<ComboException("3_alef", fund_no, <<c06>>, <<c0102, c0302, c0502>>)>>
       ELSE <<>>

\* a requirement that either of 07, 08 satisfies
BondRequirementAny(has_07, has_08) == has_07 \/ has_08

\* has_07 and has_08: what the presence of 03 requires
BondRequirementMet(has_07, has_08) == has_07 /\ has_08

\* Check 3_bet: 03 <-> 07 and 08, over the TIER 1 values
Check3Bet(fund_no, tier1_codes) ==
    LET has_03 == <<3>> \in tier1_codes \/ c03 \in tier1_codes
        has_07 == <<7>> \in tier1_codes \/ c07 \in tier1_codes
        has_08 == <<8>> \in tier1_codes \/ c08 \in tier1_codes
    IN IF has_03 /\ ~BondRequirementMet(has_07, has_08)
       THEN <<ComboException("3_bet", fund_no, <<c03>>,
                 (IF ~has_07 THEN <<c07>> ELSE <<>>) \o (IF ~has_08 THEN <<c08>> ELSE <<>>))>>
       ELSE IF (has_07 \/ has_08) /\ ~has_03
       THEN <<ComboException("3_bet", fund_no, <<c07, c08>>, <<c03>>)>>
       ELSE <<>>

\* a pairwise block without its elif branch
Check3PairOneWay(rule, fund_no, codes, first, second) ==
    IF first \in codes /\ second \notin codes
    THEN <<ComboException(rule, fund_no, <<first>>, <<second>>)>>
    ELSE <<>>

\* one pairwise block: first <-> second over the effective codes
Check3Pair(rule, fund_no, codes, first, second) ==
    LET has_first == first \in codes
        has_second == second \in codes
    IN IF has_first /\ ~has_second
       THEN <<ComboException(rule, fund_no, <<first>>, <<second>>)>>
       ELSE IF has_second /\ ~has_first
       THEN <<ComboException(rule, fund_no, <<second>>, <<first>>)>>
       ELSE <<>>

\* Check 3_vav: {03010202, 03010203} <-> 080204 over the effective codes
Check3Vav(which, fund_no, codes) ==
    LET corp_shekel_found == FoundIn(<<c03010202, c03010203>>, codes)
        has_corp_shekel == Len(corp_shekel_found) > 0
        has_080204 == c080204 \in codes
    IN IF has_corp_shekel /\ ~has_080204
       THEN <<ComboException("3_vav", fund_no,
                 IF which = "mizrahi_5" THEN corp_shekel_found ELSE <<c03010202, c03010203>>,
                 <<c080204>>)>>
       ELSE IF has_080204 /\ ~has_corp_shekel
       THEN <<ComboException("3_vav", fund_no, <<c080204>>, <<c03010202, c03010203>>)>>
       ELSE <<>>

\* a body that hands the effective codes to every rule
Check3FundOnEffectiveCodes(which, fund_no, rows) ==
    LET codes == EffectiveCodes(rows)
    IN [rule \in RuleIds |->
          IF rule = "3_alef" THEN Check3Alef(which, fund_no, codes)
          ELSE IF rule = "3_bet" THEN Check3Bet(fund_no, codes)
          ELSE IF rule = "3_vav" THEN Check3Vav(which, fund_no, codes)
          ELSE Check3Pair(rule, fund_no, codes,
                          PairRule(which, rule)[1], PairRule(which, rule)[2])]

\* the body of `for fund_no, rows in fund_rows.items()`: what one fund adds
\* to each list of `results`
Check3Fund(which, fund_no, rows) ==
    LET codes == EffectiveCodes(rows)
    IN [rule \in RuleIds |->
          IF rule = "3_alef" THEN Check3Alef(which, fund_no, Tier2Codes(rows))
          ELSE IF rule = "3_bet" THEN Check3Bet(fund_no, Tier1Codes(rows))
          ELSE IF rule = "3_vav" THEN Check3Vav(which, fund_no, codes)
          ELSE Check3Pair(rule, fund_no, codes,
                          PairRule(which, rule)[1], PairRule(which, rule)[2])]

RECURSIVE Check3Loop(_, _, _)
Check3Loop(which, rows, funds_left) ==
    IF funds_left = <<>> THEN [rule \in RuleIds |-> <<>>]
    ELSE LET fund_no == funds_left[Len(funds_left)]
             before == Check3Loop(which, rows, SubSeq(funds_left, 1, Len(funds_left) - 1))
             added == Check3Fund(which, fund_no, FundRows(rows, fund_no))
         IN [rule \in RuleIds |-> before[rule] \o added[rule]]

Check3Combinations(which, rows, mizrahi_fund_ids) ==
    Check3Loop(which, rows, FundOrder(rows, mizrahi_fund_ids))

\* ------------------------------------------------------------------------
\* check_1b_report_month_validity
\* ------------------------------------------------------------------------
MissingDateException(row) ==
    [check_id |-> "1b", reason |-> "missing report date", fund_no |-> row.fund_no[1],
     row_num |-> row.row_num, report_date |-> None, expected |-> None]

MismatchException(row, expected) ==
    [check_id |-> "1b", reason |-> "date mismatch", fund_no |-> row.fund_no[1],
     row_num |-> row.row_num, report_date |-> row.report_date, expected |-> expected]

\* a date test that looks at the month only
DateDiffersByMonth(report_date, expected) == report_date[2] # expected[2]

\* row.report_date.year != expected_year or row.report_date.month != expected_month_num
DateDiffers(report_date, expected) ==
    report_date[1] # expected[1] \/ report_date[2] # expected[2]

\* the body of the loop over disclosure_rows
Check1bRow(row, expected, mizrahi_fund_ids) ==
    IF ~FundNoIn(row, mizrahi_fund_ids) THEN <<>>
    ELSE IF row.report_date = None THEN <<MissingDateException(row)>>
    ELSE IF DateDiffers(row.report_date, expected)
    THEN <<MismatchException(row, expected)>>
    ELSE <<>>

RECURSIVE Check1bReportMonthValidity(_, _, _)
Check1bReportMonthValidity(rows, expected, mizrahi_fund_ids) ==
    IF rows = <<>> THEN <<>>
    ELSE Check1bRow(Head(rows), expected, mizrahi_fund_ids)
         \o Check1bReportMonthValidity(Tail(rows), expected, mizrahi_fund_ids)

\* ------------------------------------------------------------------------
\* check_2b_exposure_profile
\* ------------------------------------------------------------------------
\* EQUITY_EXPOSURE_PROFILES.get(equity_code, None): a cap in percent as <<n>>,
\* None for '6' and for a character that is not a key
EquityCap(ch) ==
    CASE ch = "0" -> <<0>>
      [] ch = "1" -> <<10>>
      [] ch = "2" -> <<30>>
      [] ch = "3" -> <<50>>
      [] ch = "4" -> <<120>>
      [] ch = "5" -> <<200>>
      [] OTHER -> None

\* FX_EXPOSURE_PROFILES.get(fx_code, None)
FxCap(ch) ==
    CASE ch = "0" -> <<0>>
      [] ch = "A" -> <<10>>
      [] ch = "B" -> <<30>>
      [] ch = "C" -> <<50>>
      [] ch = "D" -> <<120>>
      [] ch = "E" -> <<200>>
      [] OTHER -> None

\* str.upper() of one character
Upper(ch) ==
    CASE ch = "a" -> "A"
      [] ch = "b" -> "B"
      [] ch = "c" -> "C"
      [] ch = "d" -> "D"
      [] ch = "e" -> "E"
      [] ch = "f" -> "F"
      [] OTHER -> ch

\* str.strip()
RECURSIVE Strip(_)
Strip(str) ==
    IF str = <<>> THEN <<>>
    ELSE IF Head(str) = SP THEN Strip(Tail(str))
    ELSE IF str[Len(str)] = SP THEN Strip(SubSeq(str, 1, Len(str) - 1))
    ELSE str

\* code.startswith("01")
IsEquityCode(code) == StartsWith(code, <<0, 1>>)

\* code.startswith("06") and not code.startswith("0602") in the mizrahi_5
\* copy, code.startswith("06") in the root copy
IsFxCode(which, code) ==
    /\ StartsWith(code, <<0, 6>>)
    /\ which = "mizrahi_5" => ~StartsWith(code, <<0, 6, 0, 2>>)

\* pct = row.percent_from_fund or 0
PctOrZero(row) == IF row.percent_from_fund = None THEN FZero ELSE row.percent_from_fund[1]

\* the loop over the rows of a fund: <<equity_total, fx_total>>
RECURSIVE ExposureTotals(_, _)
ExposureTotals(which, rows) ==
    IF rows = <<>> THEN <<FZero, FZero>>
    ELSE LET before == ExposureTotals(which, SubSeq(rows, 1, Len(rows) - 1))
             row == rows[Len(rows)]
             code == EffectiveCode(row)
         IN IF code = <<>> THEN before
            ELSE IF IsEquityCode(code)
            THEN <<FAdd(before[1], PctOrZero(row)), before[2]>>
            ELSE IF IsFxCode(which, code)
            THEN <<before[1], FAdd(before[2], PctOrZero(row))>>
            ELSE before

\* max_equity is not None and equity_total > max_equity
OverCap(max, total) == max # None /\ FLess(<<max[1], 0, 0>>, total)

ExposureException(fund_no, profile, axis, max, total) ==
    [check_id |-> "2b", fund_no |-> fund_no, effective_code |-> axis,
     percent_from_fund |-> <<total>>, reason |-> [profile |-> profile, max |-> max]]

\* the body of the loop over fund_rows.items()
Check2bFund(which, fund_no, rows, funds) ==
    IF fund_no \notin DOMAIN funds THEN <<>>
    ELSE IF funds[fund_no].exposure_profile \in {None, <<>>} THEN <<>>
    ELSE LET profile == Strip(funds[fund_no].exposure_profile)
         IN IF Len(profile) < 2 THEN <<>>
            ELSE LET max_equity == EquityCap(profile[1])
                     max_fx == FxCap(Upper(profile[2]))
                     totals == ExposureTotals(which, rows)
                 IN (IF OverCap(max_equity, totals[1])
                     THEN <<ExposureException(fund_no, profile, <<0, 1>>, max_equity, totals[1])>>
                     ELSE <<>>)
                    \o (IF OverCap(max_fx, totals[2])
                        THEN <<ExposureException(fund_no, profile, <<0, 6>>, max_fx, totals[2])>>
                        ELSE <<>>)

RECURSIVE Check2bLoop(_, _, _, _)
Check2bLoop(which, order, rows, funds) ==
    IF order = <<>> THEN <<>>
    ELSE Check2bFund(which, Head(order), FundRows(rows, Head(order)), funds)
         \o Check2bLoop(which, Tail(order), rows, funds)

Check2bExposureProfile(which, rows, funds, mizrahi_fund_ids) ==
    Check2bLoop(which, FundOrder(rows, mizrahi_fund_ids), rows, funds)

\* ------------------------------------------------------------------------
\* Inputs of the validator
\* ------------------------------------------------------------------------
Copies == {"mizrahi_5", "root"}

\* registry names as loaded by load_mutual_funds_csv (stripped by _to_str)
NameMizrahi == <<"m", SP, "t">>
NameOther == <<"o">>
NameManager == <<"g">>

\* a registry entry with an exposure profile (None: the column is empty)
FundWithProfile(trustee, profile) ==
    [trustee_name |-> trustee, manager_name |-> NameManager,
     exposure_profile |-> profile]

Fund(trustee) == FundWithProfile(trustee, None)

\* every registry over the fund ids 1..MaxFund: a fund is absent, under the
\* Mizrahi trustee, or under another trustee
Registries ==
    {[fund_id \in {i \in 1 .. MaxFund : a[i] # "absent"} |->
         Fund(IF a[fund_id] = "mizrahi" THEN NameMizrahi ELSE NameOther)]
       : a \in [1 .. MaxFund -> {"absent", "mizrahi", "other"}]}

\* a report row before the loader numbers it
\* the report month of the runs: December 2025
ReportMonth == <<2025, 12>>

\* a report row with its report date as <<year, month>>, or None for an
\* empty or unparsable date cell
DatedRow(fund_no, l1, l2, l3, l4, pct, report_date) ==
    [fund_no |-> fund_no, level_1 |-> l1, level_2 |-> l2, level_3 |-> l3,
     level_4 |-> l4, percent_from_fund |-> pct, report_date |-> report_date]

RowData(fund_no, l1, l2, l3, l4, pct) ==
    DatedRow(fund_no, l1, l2, l3, l4, pct, ReportMonth)

\* enumerate(reader, start=2): the i-th data row is row i + 1
Numbered(data) ==
    [i \in 1 .. Len(data) |->
        [row_num |-> i + 1, fund_no |-> data[i].fund_no,
         level_1 |-> data[i].level_1, level_2 |-> data[i].level_2,
         level_3 |-> data[i].level_3, level_4 |-> data[i].level_4,
         percent_from_fund |-> data[i].percent_from_fund,
         report_date |-> data[i].report_date]]

Reports(universe, max_rows) ==
    {Numbered(d) : d \in UNION {[1 .. n -> universe] : n \in 0 .. max_rows}}

Row080201(fund_no, pct) == RowData(fund_no, c08, <<0, 8, 0, 2>>, c080201, <<>>, pct)

Row0802(fund_no, pct) == RowData(fund_no, c08, <<0, 8, 0, 2>>, <<>>, <<>>, pct)

\* what every run of main() starts from: the default --trustee-name, the
\* manager of the report, nothing checked yet
ValidatorStart ==
    /\ trustee_name = NameMizrahi
    /\ manager_name = NameManager
    /\ kpc = "scope"
    /\ in_scope_fund_ids = {}
    /\ exceptions_1a = <<>>
    /\ exceptions_2a = <<>>
    /\ exceptions_3 = <<>>
    /\ exceptions_1b = <<>>
    /\ exceptions_2b = <<>>
    /\ SamplerIdle
    /\ RestIdle

\* completeness inputs: any registry, rows of any fund id or of no fund
CompletenessRows ==
    {Row080201(f, <<ToFloat(4000)>>) : f \in {None} \cup {<<i>> : i \in 1 .. MaxFund}}

InitCompleteness ==
    /\ copy \in Copies
    /\ all_funds \in Registries
    /\ current_rows \in Reports(CompletenessRows, MaxReportRows)
    /\ prev_rows = <<>>
    /\ expected_month = ReportMonth
    /\ ValidatorStart

\* scope inputs: fund 1 under a trustee whose name equals the filter, equals
\* it up to whitespace, contains it as a proper part, is a part of it, or is
\* unrelated, under either manager; fund 2 under the Mizrahi trustee; the
\* filter as the default or with a doubled space
TrusteeNames ==
    {NameMizrahi, <<"m", SP, SP, "t">>, <<"x", SP, "m", SP, "t">>,
     <<"m", SP, "t", SP, "x">>, <<"m">>, NameOther}

ManagerNames == {NameManager, <<"g", SP, "h">>, <<"h">>}

TrusteeFilters == {NameMizrahi, <<"m", SP, SP, "t">>, <<SP, "m", SP, "t">>}

ScopeRegistries ==
    {(1 :> [Fund(t) EXCEPT !.manager_name = g]) @@ (2 :> Fund(NameMizrahi)) :
        t \in TrusteeNames, g \in ManagerNames}

InitScope ==
    /\ copy \in Copies \cup {"special_transactions"}
    /\ all_funds \in ScopeRegistries
    /\ current_rows = <<>>
    /\ prev_rows = <<>>
    /\ expected_month = ReportMonth
    /\ trustee_name \in TrusteeFilters
    /\ manager_name \in {NameManager, <<"h">>}
    /\ kpc = "scope"
    /\ in_scope_fund_ids = {}
    /\ exceptions_1a = <<>>
    /\ exceptions_2a = <<>>
    /\ exceptions_3 = <<>>
    /\ exceptions_1b = <<>>
    /\ exceptions_2b = <<>>
    /\ SamplerIdle
    /\ RestIdle

\* delta inputs: fund 1 in scope, fund 2 under another trustee
TwoFunds == (1 :> Fund(NameMizrahi)) @@ (2 :> Fund(NameOther))

DeltaRows ==
    {Row080201(<<1>>, <<ToFloat(h)>>) : h \in {0, 610, 1000, 1001, 1610}}
    \cup {Row0802(<<1>>, <<ToFloat(h)>>) : h \in {0, 1000}}
    \cup {Row080201(<<1>>, None), Row080201(<<2>>, <<ToFloat(2000)>>)}

InitDelta ==
    /\ copy \in Copies
    /\ all_funds = TwoFunds
    /\ current_rows \in Reports(DeltaRows, MaxCurRows)
    /\ prev_rows \in Reports(DeltaRows, MaxPrevRows)
    /\ expected_month = ReportMonth
    /\ ValidatorStart

\* the end-to-end scenario: funds 1, 2, 3 in scope; current (1, 080201, 40),
\* (2, 080201, 0); previous (1, 080201, 20)
ScenarioFunds == [fund_id \in {1, 2, 3} |-> Fund(NameMizrahi)]

ScenarioCurrent == Numbered(<<Row080201(<<1>>, <<ToFloat(4000)>>), Row080201(<<2>>, <<ToFloat(0)>>)>>)

ScenarioPrevious == Numbered(<<Row080201(<<1>>, <<ToFloat(2000)>>)>>)

InitScenario ==
    /\ copy \in Copies
    /\ all_funds = ScenarioFunds
    /\ current_rows = ScenarioCurrent
    /\ prev_rows = ScenarioPrevious
    /\ expected_month = ReportMonth
    /\ ValidatorStart

\* combination inputs: rows of fund 1 over the codes the rules name
LeafRow(fund_no, code) ==
    RowData(fund_no, SubSeq(code, 1, 2), SubSeq(code, 1, 4),
            IF Len(code) >= 6 THEN SubSeq(code, 1, 6) ELSE <<>>,
            IF Len(code) >= 8 THEN code ELSE <<>>, <<ToFloat(1000)>>)

ComboCodes ==
    {c03010101, c03010102, c03010103, c03010201, c03010202, c03010203, c03010204,
     c080201, c080202, c080203, c080204, c080205, c080206,
     c0102, c0302, c0502, <<0, 6, 0, 1>>, <<0, 3, 0, 2, 0, 1>>}

ComboRows ==
    {LeafRow(<<1>>, c) : c \in ComboCodes}
    \cup {RowData(<<1>>, l1, <<>>, <<>>, <<>>, <<ToFloat(1000)>>) : l1 \in {c06, c07, <<7>>}}
    \cup {LeafRow(<<2>>, c03010101), LeafRow(<<2>>, c0102)}

InitCombinations ==
    /\ copy \in Copies
    /\ all_funds = TwoFunds
    /\ current_rows \in Reports(ComboRows, MaxComboRows)
    /\ prev_rows = <<>>
    /\ expected_month = ReportMonth
    /\ ValidatorStart

\* exposure inputs: fund 1 in scope with any of the profiles, fund 2 under
\* another trustee with the strictest profile; equity rows (01), currency
\* rows (06), a breakdown row (0602)
Profiles ==
    {None, <<"1">>, <<"1", "A">>, <<"1", "a">>, <<"6", "A">>, <<"1", "F">>, <<"0", "0">>}

ExposureFunds(profile) ==
    (1 :> FundWithProfile(NameMizrahi, profile))
    @@ (2 :> FundWithProfile(NameOther, <<"0", "0">>))

ExposureRows ==
    {RowData(<<1>>, <<0, 1>>, <<>>, <<>>, <<>>, <<ToFloat(h)>>) : h \in {100, 106, 794, 1001}}
    \cup {RowData(<<1>>, c06, <<>>, <<>>, <<>>, <<ToFloat(h)>>) : h \in {1000, 1001}}
    \cup {RowData(<<1>>, c06, <<0, 6, 0, 2>>, <<>>, <<>>, <<ToFloat(1001)>>),
          RowData(<<1>>, <<0, 1>>, <<>>, <<>>, <<>>, None),
          RowData(<<2>>, <<0, 1>>, <<>>, <<>>, <<>>, <<ToFloat(1001)>>)}

InitExposure ==
    /\ copy \in Copies
    /\ all_funds \in {ExposureFunds(profile) : profile \in Profiles}
    /\ current_rows \in Reports(ExposureRows, MaxExposureRows)
    /\ prev_rows = <<>>
    /\ expected_month = ReportMonth
    /\ ValidatorStart

\* date inputs: rows of fund 1 (in scope), of fund 2 (another trustee) and of
\* no fund, with no date, the report month, the month before, the year before
ReportDates == {None, <<2025, 12>>, <<2025, 11>>, <<2024, 12>>}

DateRows ==
    {DatedRow(f, c08, <<>>, <<>>, <<>>, <<ToFloat(1000)>>, d) :
        f \in {None, <<1>>, <<2>>}, d \in ReportDates}

InitDates ==
    /\ copy \in Copies
    /\ all_funds = TwoFunds
    /\ current_rows \in Reports(DateRows, MaxDateRows)
    /\ prev_rows = <<>>
    /\ expected_month \in {<<2025, 12>>, <<2025, 11>>}
    /\ ValidatorStart

\* confinement inputs: funds 1 (in scope) and 2 (another trustee), both with
\* the strictest profile; for fund 1, fund 2 and no fund, a row that is late,
\* over the equity cap and new, and a row that breaks rules 3_alef and 3_bet
ConfinementRows ==
    UNION {{DatedRow(f, <<0, 1>>, <<>>, <<>>, <<>>, <<ToFloat(1001)>>, <<2025, 11>>),
            RowData(f, c03, c0302, <<>>, <<>>, <<ToFloat(1000)>>)} :
           f \in {None, <<1>>, <<2>>}}

InitConfinement ==
    /\ copy \in Copies
    /\ all_funds = ExposureFunds(<<"0", "0">>)
    /\ current_rows \in Reports(ConfinementRows, MaxComboRows)
    /\ prev_rows \in Reports(ConfinementRows, MaxPrevRows)
    /\ expected_month = ReportMonth
    /\ ValidatorStart

\* ------------------------------------------------------------------------
\* main(): scope, then the checks in order
\* ------------------------------------------------------------------------
Scope ==
    /\ kpc = "scope"
    /\ copy \in Copies
    /\ in_scope_fund_ids' =
          IF copy = "mizrahi_5"
          THEN GetInScopeFundIds(all_funds, trustee_name, manager_name)
          ELSE GetTrusteeFundIds(all_funds, trustee_name)
    /\ kpc' = "check_1a"
    /\ UNCHANGED <<exceptions_1a, exceptions_1b, exceptions_2a, exceptions_2b,
                   exceptions_3>>
    /\ UNCHANGED kinputs
    /\ UNCHANGED svars
    /\ UNCHANGED others

RunCheck1a ==
    /\ kpc = "check_1a"
    /\ exceptions_1a' = Check1aFundCompleteness(current_rows, in_scope_fund_ids, all_funds)
    /\ kpc' = "check_1b"
    /\ UNCHANGED <<in_scope_fund_ids, exceptions_1b, exceptions_2a, exceptions_2b,
                   exceptions_3>>
    /\ UNCHANGED kinputs
    /\ UNCHANGED svars
    /\ UNCHANGED others

RunCheck1b ==
    /\ kpc = "check_1b"
    /\ exceptions_1b' = Check1bReportMonthValidity(current_rows, expected_month,
                                                   in_scope_fund_ids)
    /\ kpc' = "check_2a"
    /\ UNCHANGED <<in_scope_fund_ids, exceptions_1a, exceptions_2a, exceptions_2b,
                   exceptions_3>>
    /\ UNCHANGED kinputs
    /\ UNCHANGED svars
    /\ UNCHANGED others

RunCheck2a ==
    /\ kpc = "check_2a"
    /\ exceptions_2a' = Check2aPrevMonthComparison(current_rows, prev_rows, in_scope_fund_ids)
    /\ kpc' = "check_2b"
    /\ UNCHANGED <<in_scope_fund_ids, exceptions_1a, exceptions_1b, exceptions_2b,
                   exceptions_3>>
    /\ UNCHANGED kinputs
    /\ UNCHANGED svars
    /\ UNCHANGED others

RunCheck2b ==
    /\ kpc = "check_2b"
    /\ exceptions_2b' = Check2bExposureProfile(copy, current_rows, all_funds,
                                               in_scope_fund_ids)
    /\ kpc' = "check_3"
    /\ UNCHANGED <<in_scope_fund_ids, exceptions_1a, exceptions_1b, exceptions_2a,
                   exceptions_3>>
    /\ UNCHANGED kinputs
    /\ UNCHANGED svars
    /\ UNCHANGED others

RunCheck3 ==
    /\ kpc = "check_3"
    /\ exceptions_3' = Check3Combinations(copy, current_rows, in_scope_fund_ids)
    /\ kpc' = "done"
    /\ UNCHANGED <<in_scope_fund_ids, exceptions_1a, exceptions_1b, exceptions_2a,
                   exceptions_2b>>
    /\ UNCHANGED kinputs
    /\ UNCHANGED svars
    /\ UNCHANGED others

NextValidator ==
    \/ Scope
    \/ RunCheck1a
    \/ RunCheck1b
    \/ RunCheck2a
    \/ RunCheck2b
    \/ RunCheck3

\* the special-transactions validator scopes its funds with
\* load_mizrahi_fund_ids and runs none of the K.303 checks
ScopeSpecial ==
    /\ kpc = "scope"
    /\ copy = "special_transactions"
    /\ in_scope_fund_ids' = LoadMizrahiFundIds(all_funds, trustee_name)
    /\ kpc' = "done"
    /\ UNCHANGED <<exceptions_1a, exceptions_1b, exceptions_2a, exceptions_2b,
                   exceptions_3>>
    /\ UNCHANGED kinputs
    /\ UNCHANGED svars
    /\ UNCHANGED others

NextScope ==
    \/ NextValidator
    \/ ScopeSpecial

SpecCompleteness == InitCompleteness /\ [][NextValidator]_vars

SpecScope == InitScope /\ [][NextScope]_vars

InitDeltaRuns == InitDelta \/ InitScenario

SpecDelta == InitDeltaRuns /\ [][NextValidator]_vars

SpecCombinations == InitCombinations /\ [][NextValidator]_vars

SpecExposure == InitExposure /\ [][NextValidator]_vars

SpecDates == InitDates /\ [][NextValidator]_vars

SpecConfinement == InitConfinement /\ [][NextValidator]_vars

\* ========================================================================
\* get_full_code_description
\* ========================================================================
\* The code argument is a string, a sequence of characters; a description is
\* carried as the list of its words (str.split() of it), "" as <<>>.

\* the entries of K303_CODE_INDEX under 01, 03 and 05 that the examples of the
\* docstrings use
K303CodeIndex ==
    (<<"0", "1">> :> <<"stocks">>)
    @@ (<<"0", "3">> :> <<"bonds">>)
    @@ (<<"0", "5">> :> <<"cash", "and", "deposits">>)
    @@ (<<"0", "1", "0", "1">> :> <<"stocks", "traded", "locally">>)
    @@ (<<"0", "3", "0", "1">> :> <<"bonds", "traded", "locally">>)
    @@ (<<"0", "5", "0", "1">> :> <<"shekel">>)
    @@ (<<"0", "3", "0", "1", "0", "1">> :> <<"bonds", "government">>)
    @@ (<<"0", "3", "0", "1", "0", "1", "0", "1">> :> <<"government", "linked", "index">>)

\* K303_CODE_INDEX.get(parent_code, "")
IndexGet(parent_code) ==
    IF parent_code \in DOMAIN K303CodeIndex THEN K303CodeIndex[parent_code] ELSE <<>>

\* a chain that holds the code itself and none of its ancestors
ParentCodesLeafOnly(code) == IF Len(code) \in {2, 4, 6, 8} THEN <<code>> ELSE <<>>

\* parent_codes: code[:2], code[:4], code[:6], code[:8] as far as len(code) goes
ParentCodes(code) ==
    [i \in 1 .. Min2(Len(code) \div 2, 4) |-> SubSeq(code, 1, 2 * i)]

\* a merge that stops at the first i with current_words[-i:] == new_words[:i]
MergeDescriptionsFirst(current, new_desc) ==
    IF new_desc = <<>> THEN current
    ELSE IF current = <<>> THEN new_desc
    ELSE LET max_overlap == Min2(Len(current), Len(new_desc))
             matches == {i \in 1 .. max_overlap :
                            SubSeq(current, Len(current) - i + 1, Len(current))
                              = SubSeq(new_desc, 1, i)}
             overlap == IF matches = {} THEN 0
                        ELSE CHOOSE i \in matches : \A j \in matches : i <= j
         IN current \o SubSeq(new_desc, overlap + 1, Len(new_desc))

\* _merge_descriptions(current, new_desc), both non-empty: the largest i with
\* current_words[-i:] == new_words[:i] is the overlap
MergeDescriptions(current, new_desc) ==
    IF new_desc = <<>> THEN current
    ELSE IF current = <<>> THEN new_desc
    ELSE LET max_overlap == Min2(Len(current), Len(new_desc))
             matches == {i \in 1 .. max_overlap :
                            SubSeq(current, Len(current) - i + 1, Len(current))
                              = SubSeq(new_desc, 1, i)}
             overlap == IF matches = {} THEN 0
                        ELSE CHOOSE i \in matches : \A j \in matches : j <= i
         IN current \o SubSeq(new_desc, overlap + 1, Len(new_desc))

\* a loop body that only looks at the word kept last
KeepWordUnlessRepeated(kept, word) ==
    IF kept # <<>> /\ kept[Len(kept)] = word THEN kept ELSE Append(kept, word)

\* if word not in seen: seen.add(word); result.append(word)
KeepWord(kept, word) ==
    IF word \in Range(kept) THEN kept ELSE Append(kept, word)

\* _remove_duplicate_words: keep the first occurrence of every word
RECURSIVE RemoveDuplicateWords(_)
RemoveDuplicateWords(words) ==
    IF words = <<>> THEN <<>>
    ELSE KeepWord(RemoveDuplicateWords(SubSeq(words, 1, Len(words) - 1)),
                  words[Len(words)])

\* the loop over parent_codes, starting from combined = ""
RECURSIVE Combine(_)
Combine(parent_codes) ==
    IF parent_codes = <<>> THEN <<>>
    ELSE LET combined == Combine(SubSeq(parent_codes, 1, Len(parent_codes) - 1))
             desc == IndexGet(parent_codes[Len(parent_codes)])
         IN IF desc = <<>> THEN combined
            ELSE IF combined = <<>> THEN desc
            ELSE MergeDescriptions(combined, desc)

GetFullCodeDescription(code) ==
    IF code = <<>> THEN <<>>
    ELSE RemoveDuplicateWords(Combine(ParentCodes(Strip(code))))

\* the code arguments: every string of up to MaxCodeLen characters over
\* digits, a letter and the blank, and the longer codes of the index with up
\* to two more characters
CodeChars == {"0", "1", "3", "5", "9", "z", SP}

LongCodes ==
    {k \o t : k \in {k \in DOMAIN K303CodeIndex : Len(k) >= 6},
              t \in {<<>>, <<"9">>, <<"0", "1">>, <<"9", "9">>, <<"z">>}}

CodeArguments ==
    UNION {[1 .. n -> CodeChars] : n \in 0 .. MaxCodeLen} \cup LongCodes

InitResolver ==
    /\ tcode \in CodeArguments
    /\ tpc = "call"
    /\ tresult = <<>>
    /\ SamplerIdle
    /\ ValidatorIdle
    /\ PriceIdle
    /\ ApifyIdle
    /\ LaterIdle

Resolve ==
    /\ tpc = "call"
    /\ tresult' = GetFullCodeDescription(tcode)
    /\ tpc' = "returned"
    /\ UNCHANGED tcode
    /\ UNCHANGED <<svars, kvars, pvars, avars, lvars>>

NextResolver == Resolve

SpecResolver == InitResolver /\ [][NextResolver]_vars

\* ------------------------------------------------------------------------
\* The loop of get_full_code_description over the descriptions of the parent
\* codes, whatever the index holds for them
\* ------------------------------------------------------------------------
Words == {"A", "B", "C"}

\* an index description of up to MaxWords words; <<>> is a code the index
\* does not have
IndexDescriptions == UNION {[1 .. n -> Words] : n \in 0 .. MaxWords}

InitDescriptions ==
    /\ ddescs \in UNION {[1 .. n -> IndexDescriptions] : n \in 0 .. MaxDescs}
    /\ dpc = "loop"
    /\ didx = 1
    /\ dcombined = <<>>
    /\ dlast_merge = <<>>
    /\ dresult = <<>>
    /\ SamplerIdle
    /\ ValidatorIdle
    /\ ResolverIdle
    /\ PriceIdle
    /\ ApifyIdle
    /\ IndexIdle
    /\ SpotIdle

\* one pass of `for parent_code in parent_codes`
CombineStep ==
    /\ dpc = "loop"
    /\ didx <= Len(ddescs)
    /\ LET desc == ddescs[didx]
       IN IF desc = <<>>
          THEN UNCHANGED <<dcombined, dlast_merge>>
          ELSE IF dcombined = <<>>
          THEN dcombined' = desc /\ UNCHANGED dlast_merge
          ELSE /\ dcombined' = MergeDescriptions(dcombined, desc)
               /\ dlast_merge' = <<dcombined, desc>>
    /\ didx' = didx + 1
    /\ UNCHANGED <<ddescs, dpc, dresult>>
    /\ UNCHANGED <<svars, kvars, tvars, pvars, avars, ivars, mvars>>

\* combined = _remove_duplicate_words(combined); return combined
Deduplicate ==
    /\ dpc = "loop"
    /\ didx > Len(ddescs)
    /\ dresult' = RemoveDuplicateWords(dcombined)
    /\ dpc' = "returned"
    /\ UNCHANGED <<ddescs, didx, dcombined, dlast_merge>>
    /\ UNCHANGED <<svars, kvars, tvars, pvars, avars, ivars, mvars>>

NextDescriptions ==
    \/ CombineStep
    \/ Deduplicate

SpecDescriptions == InitDescriptions /\ [][NextDescriptions]_vars

\* ========================================================================
\* fetch_tase_index_data (Mizrahi_4/mizrahi_4_logic.py)
\* ========================================================================
\* An index id is a string; int(index_id) raises on "ta" and the handler of
\* the loop body catches it. requests.get is called with timeout=30, so each
\* call ends: with a response (its status code, written as a string) or with
\* an exception.
IndexIdValues == {"142", "ta"}

IsIntLiteral(index_id) == index_id = "142"

GetOutcomes == {"200", "429", "500", "raised"}

\* a re-attempt after any response other than 200
RetryAfterFailure(status_code) == status_code # "200"

\* if response.status_code == 429
RetryAfter(status_code) == status_code = "429"

InitIndexFetch ==
    /\ index_ids \in UNION {[1 .. n -> IndexIdValues] : n \in 0 .. MaxIndexIds}
    /\ ipc = "loop"
    /\ iidx = 1
    /\ iresponse = None
    /\ irequests = [i \in DOMAIN index_ids |-> 0]
    /\ ifirst = [i \in DOMAIN index_ids |-> None]
    /\ idata = <<>>
    /\ SamplerIdle
    /\ ValidatorIdle
    /\ ResolverIdle
    /\ PriceIdle
    /\ ApifyIdle
    /\ DescriptionIdle
    /\ SpotIdle

\* `for index_id in index_ids:` and index_int = int(index_id); a ValueError
\* goes to `except Exception: continue`
NextIndexId ==
    /\ ipc = "loop"
    /\ iidx <= Len(index_ids)
    /\ IF IsIntLiteral(index_ids[iidx])
       THEN ipc' = "get" /\ iidx' = iidx
       ELSE ipc' = "loop" /\ iidx' = iidx + 1
    /\ iresponse' = None
    /\ UNCHANGED <<index_ids, irequests, ifirst, idata>>
    /\ UNCHANGED <<svars, kvars, tvars, pvars, avars, dvars, mvars>>

\* response = requests.get(...); on 429, time.sleep(3) before the second call
FirstGet ==
    /\ ipc = "get"
    /\ \E outcome \in GetOutcomes :
        /\ irequests' = [irequests EXCEPT ![iidx] = @ + 1]
        /\ ifirst' = [ifirst EXCEPT ![iidx] = <<outcome>>]
        /\ IF outcome = "raised"
           THEN /\ ipc' = "loop"
                /\ iidx' = iidx + 1
                /\ iresponse' = None
           ELSE /\ ipc' = IF RetryAfter(outcome) THEN "retry" ELSE "handle"
                /\ iidx' = iidx
                /\ iresponse' = <<outcome>>
    /\ UNCHANGED <<index_ids, idata>>
    /\ UNCHANGED <<svars, kvars, tvars, pvars, avars, dvars, mvars>>

\* the second requests.get, inside `if response.status_code == 429`
SecondGet ==
    /\ ipc = "retry"
    /\ \E outcome \in GetOutcomes :
        /\ irequests' = [irequests EXCEPT ![iidx] = @ + 1]
        /\ IF outcome = "raised"
           THEN /\ ipc' = "loop"
                /\ iidx' = iidx + 1
                /\ iresponse' = None
           ELSE /\ ipc' = "handle"
                /\ iidx' = iidx
                /\ iresponse' = <<outcome>>
    /\ UNCHANGED <<index_ids, ifirst, idata>>
    /\ UNCHANGED <<svars, kvars, tvars, pvars, avars, dvars, mvars>>

\* `if response.status_code != 200: continue`; otherwise the body is parsed
\* (response.json() and the .get chain may raise: continue) and stored, then
\* time.sleep(0.25)
HandleResponse ==
    /\ ipc = "handle"
    /\ IF iresponse # <<"200">>
       THEN idata' = idata
       ELSE \E parsed \in BOOLEAN :
               idata' = IF parsed /\ index_ids[iidx] \notin Range(idata)
                        THEN Append(idata, index_ids[iidx]) ELSE idata
    /\ ipc' = "loop"
    /\ iidx' = iidx + 1
    /\ UNCHANGED <<index_ids, iresponse, irequests, ifirst>>
    /\ UNCHANGED <<svars, kvars, tvars, pvars, avars, dvars, mvars>>

\* return result
ReturnIndexData ==
    /\ ipc = "loop"
    /\ iidx > Len(index_ids)
    /\ ipc' = "returned"
    /\ UNCHANGED <<index_ids, iidx, iresponse, irequests, ifirst, idata>>
    /\ UNCHANGED <<svars, kvars, tvars, pvars, avars, dvars, mvars>>

NextIndexFetch ==
    \/ NextIndexId
    \/ FirstGet
    \/ SecondGet
    \/ HandleResponse
    \/ ReturnIndexData

SpecIndexFetch == InitIndexFetch /\ [][NextIndexFetch]_vars

\* the interpreter keeps running the function and every request ends
SpecIndexFetchFair == InitIndexFetch /\ [][NextIndexFetch]_vars /\ WF_vars(NextIndexFetch)

\* ------------------------------------------------------------------------
\* Checks #6 and #7 of mizrahi_special_transactions.py
\* ------------------------------------------------------------------------
TASE_SAMPLES_PER_TYPE == 2

\* TASE_PRICE_CHECK_TYPES = {12, 21, 22}, in the order the set is iterated
TASE_PRICE_CHECK_TYPES == <<12, 21, 22>>

PRICE_LIMIT_TYPES == 31 .. 36

PRICE_LIMIT == <<100, 0, 0>>

\* the keys of PROBLEMATIC_LISTS_CONFIG, in order
ListTypes == <<"low_liquidity", "maintenance", "suspended">>

\* r.tx_type == tx_type and r.security_no and r.tx_date and r.price
Eligible(r, tx_type) ==
    /\ r.tx_type = <<tx_type>>
    /\ r.security_no # None
    /\ r.tx_date # None
    /\ r.price # None
    /\ r.price[1] # FZero

\* rng.sample(type_rows, k): k distinct rows in some order
Selections(type_rows, k) ==
    {[i \in 1 .. k |-> type_rows[f[i]]] :
        f \in {g \in [1 .. k -> 1 .. Len(type_rows)] :
                 \A i, j \in 1 .. k : i # j => g[i] # g[j]}}

\* the samples of one type; a type without eligible rows gets no entry
TypeSamples(rows, tx_type) ==
    LET type_rows == SelectSeq(rows, LAMBDA r : Eligible(r, tx_type))
    IN Selections(type_rows, Min2(TASE_SAMPLES_PER_TYPE, Len(type_rows)))

\* samples_by_type, flattened in the order the fetch loop walks it
SampleChoices(rows) ==
    {a \o b \o c : a \in TypeSamples(rows, TASE_PRICE_CHECK_TYPES[1]),
                   b \in TypeSamples(rows, TASE_PRICE_CHECK_TYPES[2]),
                   c \in TypeSamples(rows, TASE_PRICE_CHECK_TYPES[3])}

\* _fetch_tase_closing_price: <<price>> with no error, or None with an error
\* message (no data, no table, date not found, unparsable price, exception)
FetchTaseClosingPrice(txn) == oracle[txn.security_no[1]]

\* x / 2.0 (exact on the quotients that occur: x is a multiple of 2^-51)
FHalf(x) ==
    <<x[1] \div 2, (x[2] + (x[1] % 2) * Limb) \div 2,
      (x[3] + (x[2] % 2) * Limb) \div 2>>

\* x / r for the closing prices 1.0 and 2.0
FDiv(x, r) == IF r = <<1, 0, 0>> THEN x ELSE FHalf(x)

\* x * 100: the exact product 64x + 32x + 4x, rounded once
FTimes100(x) ==
    LET x2 == FAddExact(x, x)
        x4 == FAddExact(x2, x2)
        x8 == FAddExact(x4, x4)
        x16 == FAddExact(x8, x8)
        x32 == FAddExact(x16, x16)
        x64 == FAddExact(x32, x32)
    IN FRound(FAddExact(FAddExact(x64, x32), x4))

\* ((txn.price - closing_price) / closing_price) * 100 as sign and magnitude
PriceAbovePct(price, closing_price) ==
    [negative |-> FLess(price, closing_price),
     magnitude |-> FTimes100(FDiv(FAbsDiff(price, closing_price), closing_price))]

\* price_above_pct > variance_threshold_pct, for a threshold that is not
\* negative
AboveThreshold(price_above_pct, threshold) ==
    ~price_above_pct.negative /\ FLess(threshold, price_above_pct.magnitude)

\* the else branch of the fetch loop: the PriceCheckResult of a sample whose
\* closing price was fetched
PriceCheckResult(txn, closing_price, threshold) ==
    LET positive == closing_price # FZero
        price_above_pct ==
            IF positive THEN PriceAbovePct(txn.price[1], closing_price)
            ELSE [negative |-> FALSE, magnitude |-> FZero]
    IN [row |-> txn, tase_closing_price |-> closing_price,
        variance_pct |-> price_above_pct,
        is_exception |-> positive /\ AboveThreshold(price_above_pct, threshold)]

\* one pass of the fetch loop: a sample with an error is logged and left out
RecordFetchAlways(results, txn, answer, threshold) ==
    Append(results,
           PriceCheckResult(txn, IF answer = None THEN FZero ELSE answer[1],
                            threshold))

RecordFetch(results, txn, answer, threshold) ==
    IF answer = None THEN results
    ELSE Append(results, PriceCheckResult(txn, answer[1], threshold))

\* check_6_price_limits
Check6PriceLimits(rows) ==
    SelectSeq(rows, LAMBDA r :
        /\ r.tx_type # None
        /\ r.tx_type[1] \in PRICE_LIMIT_TYPES
        /\ r.price # None
        /\ FLess(PRICE_LIMIT, r.price[1]))

\* what the three TASE pages list when they load
Listing ==
    [t \in Range(ListTypes) |->
        CASE t = "low_liquidity" -> {"s1"}
          [] t = "maintenance" -> {}
          [] t = "suspended" -> {"s1", "s2"}]

\* what a readable cache file holds
CachedLists == << <<"low_liquidity", {"s2"}>> >>

\* the lists fetched page by page: a page that fails yields the empty set
FetchedLists(failing) ==
    [i \in 1 .. Len(ListTypes) |->
        <<ListTypes[i], IF ListTypes[i] \in failing THEN {} ELSE Listing[ListTypes[i]]>>]

\* check_7_problematic_securities
MatchedLists(row, lists) ==
    SelectSeq(lists, LAMBDA l : row.security_no[1] \in l[2])

RECURSIVE Check7ProblematicSecurities(_, _)
Check7ProblematicSecurities(rows, lists) ==
    IF rows = <<>> THEN <<>>
    ELSE LET before == Check7ProblematicSecurities(SubSeq(rows, 1, Len(rows) - 1), lists)
             row == rows[Len(rows)]
         IN IF row.security_no = None THEN before
            ELSE IF MatchedLists(row, lists) = <<>> THEN before
            ELSE Append(before,
                        [row |-> row,
                         matched_lists |->
                             [i \in 1 .. Len(MatchedLists(row, lists)) |->
                                 MatchedLists(row, lists)[i][1]]])

\* ---- inputs ----
TxnRow(row_num, tx_type, security_no, tx_date, price) ==
    [row_num |-> row_num, tx_type |-> tx_type, security_no |-> security_no,
     tx_date |-> tx_date, price |-> price]

TxnDate == <<2025, 12, 1>>

\* the rows a report can hold at one line
TxnRowKinds(row_num) ==
    {TxnRow(row_num, <<12>>, <<"s1">>, <<TxnDate>>, <<ToFloat(h)>>) : h \in {100, 210, 220}}
    \cup {TxnRow(row_num, <<12>>, <<"s2">>, <<TxnDate>>, <<ToFloat(210)>>),
          TxnRow(row_num, <<12>>, None, <<TxnDate>>, <<ToFloat(210)>>),
          TxnRow(row_num, <<31>>, <<"s1">>, <<TxnDate>>, <<ToFloat(10100)>>)}

TxnLists(max_rows) ==
    UNION {{rows \in [1 .. n -> UNION {TxnRowKinds(i) : i \in 1 .. n}] :
               \A i \in 1 .. n : rows[i].row_num = i} : n \in 0 .. max_rows}

\* what the TASE pages of the two securities yield
Oracles ==
    {("s1" :> a) @@ ("s2" :> b) :
        a \in {None, <<FZero>>, <<ToFloat(100)>>, <<ToFloat(200)>>},
        b \in {None, <<ToFloat(100)>>}}

Thresholds == {ToFloat(500), ToFloat(1000)}

PriceStart ==
    /\ ppc = "check_6_tase"
    /\ samples = <<>>
    /\ pidx = 0
    /\ price_check_results = <<>>
    /\ failed_url_count = 0
    /\ price_limit_results = <<>>
    /\ problematic_lists = <<>>
    /\ problematic_security_results = <<>>
    /\ SamplerIdle
    /\ ValidatorIdle
    /\ ResolverIdle
    /\ ApifyIdle
    /\ LaterIdle

\* the price check on any report, with the browser at hand
InitPriceCheck ==
    /\ txn_rows \in TxnLists(MaxTxnRows)
    /\ oracle \in Oracles
    /\ variance_threshold \in Thresholds
    /\ selenium_available = TRUE
    /\ driver_starts = TRUE
    /\ skip_tase_prices = FALSE
    /\ cache_state = "absent"
    /\ PriceStart

\* the run on three reports, in any environment
RunReports ==
    {<<>>,
     <<TxnRow(1, <<12>>, <<"s1">>, <<TxnDate>>, <<ToFloat(220)>>)>>,
     <<TxnRow(1, <<12>>, <<"s1">>, <<TxnDate>>, <<ToFloat(220)>>),
       TxnRow(2, <<31>>, <<"s1">>, <<TxnDate>>, <<ToFloat(10100)>>),
       TxnRow(3, <<12>>, <<"s2">>, <<TxnDate>>, <<ToFloat(210)>>)>>}

InitRun ==
    /\ txn_rows \in RunReports
    /\ oracle \in Oracles
    /\ variance_threshold = ToFloat(500)
    /\ selenium_available \in BOOLEAN
    /\ driver_starts \in BOOLEAN
    /\ skip_tase_prices \in BOOLEAN
    /\ cache_state \in {"absent", "readable", "unreadable"}
    /\ PriceStart

\* ---- actions ----
\* main() reaches check #6 part 1: skipped, or check_6_tase_prices up to the
\* fetch loop.  _init_selenium_driver returns None only without Selenium; a
\* browser that does not come up raises out of check_6_tase_prices and main()
StartPriceCheck ==
    /\ ppc = "check_6_tase"
    /\ IF skip_tase_prices \/ ~selenium_available
       THEN /\ ppc' = "price_limits"
            /\ UNCHANGED <<samples, pidx>>
       ELSE \E selected \in SampleChoices(txn_rows) :
               /\ samples' = selected
               /\ IF selected = <<>>
                  THEN ppc' = "price_limits" /\ UNCHANGED pidx
                  ELSE IF ~driver_starts
                  THEN ppc' = "crashed" /\ UNCHANGED pidx
                  ELSE ppc' = "fetch" /\ pidx' = 1
    /\ UNCHANGED <<price_check_results, failed_url_count, price_limit_results,
                   problematic_lists, problematic_security_results>>
    /\ UNCHANGED pinputs
    /\ UNCHANGED <<svars, kvars, tvars, avars, lvars>>

\* one pass of the loop over the samples
FetchPrice ==
    /\ ppc = "fetch"
    /\ pidx <= Len(samples)
    /\ LET txn == samples[pidx]
           answer == FetchTaseClosingPrice(txn)
       IN /\ price_check_results' =
                 RecordFetch(price_check_results, txn, answer, variance_threshold)
          /\ failed_url_count' = failed_url_count + (IF answer = None THEN 1 ELSE 0)
    /\ pidx' = pidx + 1
    /\ UNCHANGED <<ppc, samples, price_limit_results, problematic_lists,
                   problematic_security_results>>
    /\ UNCHANGED pinputs
    /\ UNCHANGED <<svars, kvars, tvars, avars, lvars>>

\* the loop is over: driver.quit(), return results
FinishPriceCheck ==
    /\ ppc = "fetch"
    /\ pidx > Len(samples)
    /\ ppc' = "price_limits"
    /\ UNCHANGED <<samples, pidx, price_check_results, failed_url_count,
                   price_limit_results, problematic_lists,
                   problematic_security_results>>
    /\ UNCHANGED pinputs
    /\ UNCHANGED <<svars, kvars, tvars, avars, lvars>>

RunPriceLimits ==
    /\ ppc = "price_limits"
    /\ price_limit_results' = Check6PriceLimits(txn_rows)
    /\ ppc' = "lists"
    /\ UNCHANGED <<samples, pidx, price_check_results, failed_url_count,
                   problematic_lists, problematic_security_results>>
    /\ UNCHANGED pinputs
    /\ UNCHANGED <<svars, kvars, tvars, avars, lvars>>

\* fetch_problematic_lists: the cache if it loads, else the three pages
FetchProblematicLists ==
    /\ ppc = "lists"
    /\ IF cache_state = "readable"
       THEN problematic_lists' = CachedLists /\ ppc' = "check_7"
       ELSE IF ~selenium_available
       THEN problematic_lists' = <<>> /\ ppc' = "check_7"
       ELSE IF ~driver_starts
       THEN ppc' = "crashed" /\ UNCHANGED problematic_lists
       ELSE \E failing \in SUBSET Range(ListTypes) :
               /\ problematic_lists' = FetchedLists(failing)
               /\ ppc' = "check_7"
    /\ UNCHANGED <<samples, pidx, price_check_results, failed_url_count,
                   price_limit_results, problematic_security_results>>
    /\ UNCHANGED pinputs
    /\ UNCHANGED <<svars, kvars, tvars, avars, lvars>>

RunCheck7 ==
    /\ ppc = "check_7"
    /\ problematic_security_results' =
          Check7ProblematicSecurities(txn_rows, problematic_lists)
    /\ ppc' = "write"
    /\ UNCHANGED <<samples, pidx, price_check_results, failed_url_count,
                   price_limit_results, problematic_lists>>
    /\ UNCHANGED pinputs
    /\ UNCHANGED <<svars, kvars, tvars, avars, lvars>>

\* write_output_xlsx
WriteOutput ==
    /\ ppc = "write"
    /\ ppc' = "written"
    /\ UNCHANGED <<samples, pidx, price_check_results, failed_url_count,
                   price_limit_results, problematic_lists,
                   problematic_security_results>>
    /\ UNCHANGED pinputs
    /\ UNCHANGED <<svars, kvars, tvars, avars, lvars>>

NextPriceCheck ==
    \/ StartPriceCheck
    \/ FetchPrice
    \/ FinishPriceCheck

NextRun ==
    \/ NextPriceCheck
    \/ RunPriceLimits
    \/ FetchProblematicLists
    \/ RunCheck7
    \/ WriteOutput

SpecPriceCheck == InitPriceCheck /\ [][NextPriceCheck]_vars

SpecRun == InitRun /\ [][NextRun]_vars

\* ========================================================================
\* main() of mizrahi_special_transactions.py from check #1 to check #7
\* ========================================================================
\* A TxnRow with the fields the checks read; quantity is a signed integer,
\* tx_time an hour.
FullTxnRow(row_num, fund_no, security_no, quantity, price, tx_date, tx_time, tx_type, decision_method) ==
    [row_num |-> row_num, fund_no |-> fund_no, security_no |-> security_no,
     quantity |-> quantity, price |-> price, tx_date |-> tx_date,
     tx_time |-> tx_time, tx_type |-> tx_type, decision_method |-> decision_method]

TYPE_REQUIRES_DECISION_1 == {12, 22}

TYPE_REQUIRES_DECISION_1_OR_2 == 31 .. 36

\* the distinct elements of a list in order of first occurrence: the keys of
\* a dict filled in list order
RECURSIVE KeysInOrder(_)
KeysInOrder(q) ==
    IF q = <<>> THEN <<>>
    ELSE LET front == KeysInOrder(SubSeq(q, 1, Len(q) - 1))
         IN IF q[Len(q)] \in Range(front) THEN front ELSE Append(front, q[Len(q)])

RECURSIVE ConcatAll(_)
ConcatAll(lists) == IF lists = <<>> THEN <<>> ELSE Head(lists) \o ConcatAll(Tail(lists))

SpotException(check_id, row) == [check_id |-> check_id, row |-> row]

Flagged(check_id, rows) == [i \in 1 .. Len(rows) |-> SpotException(check_id, rows[i])]

\* TxnRow.unique_id: security number + date
UniqueId(r) == <<r.security_no, r.tx_date>>

AbsQuantity(r) == IF r.quantity[1] < 0 THEN 0 - r.quantity[1] ELSE r.quantity[1]

\* check_1_abs_quantity_pairs: within a unique id, the rows of an absolute
\* quantity that occurs with both signs
Check1Group(group) ==
    LET counted == SelectSeq(group, LAMBDA r : r.quantity # None /\ r.quantity # <<0>>)
        abs_keys == KeysInOrder([i \in 1 .. Len(counted) |-> AbsQuantity(counted[i])])
        rs(abs_qty) == SelectSeq(counted, LAMBDA r : AbsQuantity(r) = abs_qty)
        has_positive(abs_qty) == \E i \in DOMAIN rs(abs_qty) : rs(abs_qty)[i].quantity[1] > 0
        has_negative(abs_qty) == \E i \in DOMAIN rs(abs_qty) : rs(abs_qty)[i].quantity[1] < 0
    IN ConcatAll([k \in 1 .. Len(abs_keys) |->
          IF has_positive(abs_keys[k]) /\ has_negative(abs_keys[k])
          THEN Flagged("CHK_1", rs(abs_keys[k])) ELSE <<>>])

Check1AbsQuantityPairs(rows) ==
    LET uids == KeysInOrder([i \in 1 .. Len(rows) |-> UniqueId(rows[i])])
    IN ConcatAll([k \in 1 .. Len(uids) |->
          Check1Group(SelectSeq(rows, LAMBDA r : UniqueId(r) = uids[k]))])

\* check_3_dates_in_report_month: a missing date, or another year or month
Check3DatesInReportMonth(rows, report_month) ==
    Flagged("CHK_3", SelectSeq(rows, LAMBDA r :
        \/ r.tx_date = None
        \/ r.tx_date[1][1] # report_month[1]
        \/ r.tx_date[1][2] # report_month[2]))

\* check_4_decision_method_rules (the two type sets are disjoint: a row is
\* reported once)
Check4DecisionMethodRules(rows) ==
    Flagged("CHK_4", SelectSeq(rows, LAMBDA r :
        \/ r.tx_type = None
        \/ r.decision_method = None
        \/ r.tx_type[1] \in TYPE_REQUIRES_DECISION_1 /\ r.decision_method # <<1>>
        \/ /\ r.tx_type[1] \in TYPE_REQUIRES_DECISION_1_OR_2
           /\ r.decision_method \notin {<<1>>, <<2>>}))

\* check_4c_price_type_consistency: the rows of a (security, date, time)
\* group of two or more in which prices or types differ
Check4cPriceTypeConsistency(rows) ==
    LET keyed == SelectSeq(rows, LAMBDA r :
                     r.security_no # None /\ r.tx_date # None /\ r.tx_time # None)
        key(r) == <<r.security_no, r.tx_date, r.tx_time>>
        keys == KeysInOrder([i \in 1 .. Len(keyed) |-> key(keyed[i])])
        group(k) == SelectSeq(keyed, LAMBDA r : key(r) = keys[k])
        prices(k) == {r.price : r \in Range(group(k))} \ {None}
        types(k) == {r.tx_type : r \in Range(group(k))} \ {None}
    IN ConcatAll([k \in 1 .. Len(keys) |->
          IF /\ Len(group(k)) > 1
             /\ (Cardinality(prices(k)) > 1 \/ Cardinality(types(k)) > 1)
          THEN Flagged("CHK_4C", group(k)) ELSE <<>>])

\* in_scope_rows = [r for r in rows if r.fund_no in in_scope_funds]
InScopeRows(rows, funds) ==
    SelectSeq(rows, LAMBDA r : r.fund_no # None /\ r.fund_no[1] \in funds)

\* ex_row_nums and valid_rows of main()
ValidRows(in_scope_rows, found) ==
    LET ex_row_nums == {found[i].row.row_num : i \in DOMAIN found}
    IN SelectSeq(in_scope_rows, LAMBDA r : r.row_num \notin ex_row_nums)

\* pick_samples: rng.choice of the rows of a decision method, None without
SampleOf(valid_rows, decision_method) ==
    LET dm == SelectSeq(valid_rows, LAMBDA r : r.decision_method = <<decision_method>>)
    IN IF dm = <<>> THEN {None} ELSE {<<dm[i]>> : i \in DOMAIN dm}

PickSamples(valid_rows) ==
    {[decision_1 |-> s1, decision_2 |-> s2] :
        s1 \in SampleOf(valid_rows, 1), s2 \in SampleOf(valid_rows, 2)}

\* check_6_tase_prices on its samples, with what the TASE pages yield
RECURSIVE TaseResults(_, _, _)
TaseResults(selected, pages, threshold) ==
    IF selected = <<>> THEN <<>>
    ELSE RecordFetch(TaseResults(SubSeq(selected, 1, Len(selected) - 1), pages, threshold),
                     selected[Len(selected)],
                     pages[selected[Len(selected)].security_no[1]], threshold)

\* ---- inputs ----
SpotMonth == <<2025, 12>>

\* the rows a report can hold at one line: clean rows of decision methods 1
\* and 2, a sale that pairs with the purchase of the same security, a row
\* over the price limit, rows that break the date and decision rules, a row
\* of a fund outside the scope
SpotRowKinds(n) ==
    {FullTxnRow(n, <<1>>, <<"s1">>, <<1>>, <<ToFloat(210)>>, <<TxnDate>>, <<9>>, <<12>>, <<1>>),
     FullTxnRow(n, <<1>>, <<"s2">>, <<1>>, <<ToFloat(500)>>, <<TxnDate>>, <<9>>, <<31>>, <<2>>),
     FullTxnRow(n, <<1>>, <<"s2">>, <<1>>, <<ToFloat(10100)>>, <<TxnDate>>, <<10>>, <<31>>, <<2>>),
     FullTxnRow(n, <<1>>, <<"s1">>, <<0 - 1>>, <<ToFloat(220)>>, <<TxnDate>>, <<9>>, <<12>>, <<1>>),
     FullTxnRow(n, <<1>>, <<"s1">>, <<2>>, <<ToFloat(210)>>, <<<<2025, 11, 30>>>>, <<9>>, <<12>>, <<1>>),
     FullTxnRow(n, <<1>>, <<"s1">>, <<2>>, <<ToFloat(210)>>, <<TxnDate>>, <<11>>, <<12>>, <<2>>),
     FullTxnRow(n, <<1>>, None, None, None, None, None, None, None),
     FullTxnRow(n, <<2>>, <<"s1">>, <<3>>, <<ToFloat(210)>>, <<TxnDate>>, <<12>>, <<12>>, <<1>>)}

SpotReports ==
    UNION {{rows \in [1 .. n -> UNION {SpotRowKinds(i) : i \in 1 .. n}] :
               \A i \in 1 .. n : rows[i].row_num = i} : n \in 0 .. MaxSpotRows}

InitSpotCheck ==
    /\ mrows \in SpotReports
    /\ min_scope_funds = {1}
    /\ mpc = "check_1"
    /\ mex_dup = <<>>
    /\ mex_date = <<>>
    /\ mex_decision = <<>>
    /\ mex_price_type = <<>>
    /\ msamples = <<>>
    /\ mprice_checks = <<>>
    /\ mprice_limits = <<>>
    /\ mproblematic = <<>>
    /\ SamplerIdle
    /\ ValidatorIdle
    /\ ResolverIdle
    /\ PriceIdle
    /\ ApifyIdle
    /\ DescriptionIdle
    /\ IndexIdle

\* ---- actions ----
\* ex_dup = check_1_abs_quantity_pairs(rows)
SpotCheck1 ==
    /\ mpc = "check_1"
    /\ mex_dup' = Check1AbsQuantityPairs(mrows)
    /\ mpc' = "in_scope_checks"
    /\ UNCHANGED <<mrows, min_scope_funds, mex_date, mex_decision, mex_price_type,
                   msamples, mprice_checks, mprice_limits, mproblematic>>
    /\ UNCHANGED <<svars, kvars, tvars, pvars, avars, dvars, ivars>>

\* checks #3, #4 and #4c on in_scope_rows
SpotInScopeChecks ==
    /\ mpc = "in_scope_checks"
    /\ LET in_scope_rows == InScopeRows(mrows, min_scope_funds)
       IN /\ mex_date' = Check3DatesInReportMonth(in_scope_rows, SpotMonth)
          /\ mex_decision' = Check4DecisionMethodRules(in_scope_rows)
          /\ mex_price_type' = Check4cPriceTypeConsistency(in_scope_rows)
    /\ mpc' = "sampling"
    /\ UNCHANGED <<mrows, min_scope_funds, mex_dup, msamples, mprice_checks,
                   mprice_limits, mproblematic>>
    /\ UNCHANGED <<svars, kvars, tvars, pvars, avars, dvars, ivars>>

\* valid_rows and samples = pick_samples(valid_rows, seed=args.seed)
SpotPickSamples ==
    /\ mpc = "sampling"
    /\ msamples' \in
          PickSamples(ValidRows(InScopeRows(mrows, min_scope_funds),
                                mex_dup \o mex_date \o mex_decision \o mex_price_type))
    /\ mpc' = "check_6_tase"
    /\ UNCHANGED <<mrows, min_scope_funds, mex_dup, mex_date, mex_decision,
                   mex_price_type, mprice_checks, mprice_limits, mproblematic>>
    /\ UNCHANGED <<svars, kvars, tvars, pvars, avars, dvars, ivars>>

\* check #6 part 1, skipped with --skip-tase-prices
SpotTasePrices ==
    /\ mpc = "check_6_tase"
    /\ \E skip \in BOOLEAN, pages \in Oracles :
          \E selected \in SampleChoices(InScopeRows(mrows, min_scope_funds)) :
             mprice_checks' =
                 IF skip THEN <<>> ELSE TaseResults(selected, pages, ToFloat(500))
    /\ mpc' = "later_checks"
    /\ UNCHANGED <<mrows, min_scope_funds, mex_dup, mex_date, mex_decision,
                   mex_price_type, msamples, mprice_limits, mproblematic>>
    /\ UNCHANGED <<svars, kvars, tvars, pvars, avars, dvars, ivars>>

\* check #6 part 2 and check #7 on in_scope_rows
SpotLaterChecks ==
    /\ mpc = "later_checks"
    /\ LET in_scope_rows == InScopeRows(mrows, min_scope_funds)
       IN /\ mprice_limits' = Check6PriceLimits(in_scope_rows)
          /\ \E failing \in SUBSET Range(ListTypes) :
                mproblematic' =
                    Check7ProblematicSecurities(in_scope_rows, FetchedLists(failing))
    /\ mpc' = "checked"
    /\ UNCHANGED <<mrows, min_scope_funds, mex_dup, mex_date, mex_decision,
                   mex_price_type, msamples, mprice_checks>>
    /\ UNCHANGED <<svars, kvars, tvars, pvars, avars, dvars, ivars>>

NextSpotCheck ==
    \/ SpotCheck1
    \/ SpotInScopeChecks
    \/ SpotPickSamples
    \/ SpotTasePrices
    \/ SpotLaterChecks

SpecSpotCheck == InitSpotCheck /\ [][NextSpotCheck]_vars

\* ------------------------------------------------------------------------
\* run_actor_and_wait (shared/apify_client.py, test_fund_automation.py) and
\* wait_for_run (download_k303_reports.py)
\* ------------------------------------------------------------------------
RunStatuses == {"READY", "RUNNING", "SUCCEEDED", "FAILED", "ABORTED", "TIMED-OUT"}

FailedStatuses == {"FAILED", "ABORTED", "TIMED-OUT"}

\* requests.get(..., timeout=30) in wait_for_run; apify_request passes no
\* timeout to requests.request, which then waits for the server without limit
RequestHasTimeout(impl) == impl = "downloader"

\* time.sleep(3) in the test copy, time.sleep(poll_interval) elsewhere
SleepSeconds(impl, interval) == IF impl = "test" THEN 3 ELSE interval

InitApify ==
    /\ implementation \in {"shared", "test", "downloader"}
    /\ timeout \in 0 .. MaxTimeout
    /\ poll_interval \in 0 .. MaxPollInterval
    /\ apc = IF implementation = "downloader" THEN "started" ELSE "post"
    /\ clock = 0
    /\ start = <<>>
    /\ status = <<>>
    /\ run_data = <<>>
    /\ SamplerIdle
    /\ ValidatorIdle
    /\ ResolverIdle
    /\ PriceIdle
    /\ LaterIdle

\* the server answers the POST that starts the run: the run id, or an HTTP
\* error that raise_for_status turns into an exception
PostResponds ==
    /\ apc = "post"
    /\ \E latency \in 1 .. MaxLatency, ok \in BOOLEAN :
        /\ clock' = clock + latency
        /\ apc' = IF ok THEN "started" ELSE "raised_http"
    /\ UNCHANGED <<start, status, run_data>>
    /\ UNCHANGED ainputs
    /\ UNCHANGED <<svars, kvars, tvars, pvars, lvars>>

\* start = time.time()
TakeStart ==
    /\ apc = "started"
    /\ start' = <<clock>>
    /\ apc' = "loop"
    /\ UNCHANGED <<clock, status, run_data>>
    /\ UNCHANGED ainputs
    /\ UNCHANGED <<svars, kvars, tvars, pvars, lvars>>

\* while time.time() - start < timeout: send the GET; else raise the timeout
LoopTest ==
    /\ apc = "loop"
    /\ apc' = IF clock - start[1] < timeout THEN "get" ELSE "raised_timeout"
    /\ UNCHANGED <<clock, start, status, run_data>>
    /\ UNCHANGED ainputs
    /\ UNCHANGED <<svars, kvars, tvars, pvars, lvars>>

\* the server answers the GET: a status, or an HTTP error
PollResponds ==
    /\ apc = "get"
    /\ \E latency \in 1 .. MaxLatency :
        /\ clock' = clock + latency
        /\ \/ \E s \in RunStatuses : status' = <<s>> /\ apc' = "check"
           \/ apc' = "raised_http" /\ UNCHANGED status
    /\ UNCHANGED <<start, run_data>>
    /\ UNCHANGED ainputs
    /\ UNCHANGED <<svars, kvars, tvars, pvars, lvars>>

\* the request timeout of wait_for_run expires: requests raises
RequestTimesOut ==
    /\ apc = "get"
    /\ RequestHasTimeout(implementation)
    /\ clock' = clock + MaxLatency
    /\ apc' = "raised_http"
    /\ UNCHANGED <<start, status, run_data>>
    /\ UNCHANGED ainputs
    /\ UNCHANGED <<svars, kvars, tvars, pvars, lvars>>

\* what the function does with an observed status
Outcome(s) ==
    IF s = "SUCCEEDED" THEN "returned"
    ELSE IF s \in FailedStatuses THEN "raised_failed"
    ELSE "sleep"

\* the body of the loop after the response: return, raise, or sleep
HandleStatus ==
    /\ apc = "check"
    /\ LET outcome == Outcome(status[1])
       IN /\ apc' = IF outcome = "sleep" THEN "loop" ELSE outcome
          /\ run_data' = IF outcome = "returned" THEN status ELSE run_data
          /\ clock' = IF outcome = "sleep"
                      THEN clock + SleepSeconds(implementation, poll_interval)
                      ELSE clock
    /\ UNCHANGED <<start, status>>
    /\ UNCHANGED ainputs
    /\ UNCHANGED <<svars, kvars, tvars, pvars, lvars>>

\* the steps the function itself takes (the server's answers are not among
\* them)
ApifySteps ==
    \/ TakeStart
    \/ LoopTest
    \/ RequestTimesOut
    \/ HandleStatus

NextApify ==
    \/ PostResponds
    \/ PollResponds
    \/ ApifySteps

SpecApify == InitApify /\ [][NextApify]_vars

\* the interpreter keeps running the function; nothing makes the server answer
SpecApifyFair == InitApify /\ [][NextApify]_vars /\ WF_vars(ApifySteps)

\* a server that answers every request
SpecApifyResponsive ==
    InitApify /\ [][NextApify]_vars /\ WF_vars(ApifySteps)
        /\ WF_vars(PostResponds) /\ WF_vars(PollResponds)

\* ------------------------------------------------------------------------
\* C19: when the list is no longer than max_count, the call returns the
\* input list itself (same elements, same order, not sorted by row) with
\* original_count = len(exceptions), and it creates no generator and builds
\* no sample: no randomness is consumed.
\* ------------------------------------------------------------------------
SamplerPassThrough ==
    (Returned /\ ~Sampling) =>
        /\ result = <<exceptions, Len(exceptions)>>
        /\ rng = None
        /\ sampled = <<>>
        /\ pre_trim = <<>>

\* a list that is not in row order came back as it was
SamplerPassThroughWitness ==
    /\ Returned
    /\ ~Sampling
    /\ result[1] = exceptions
    /\ result[1] # SortByRowNum(exceptions)
    /\ rng = None

\* ------------------------------------------------------------------------
\* Claims about the validator
\* ------------------------------------------------------------------------
Done == kpc = "done"

\* the exceptions of a list that a predicate selects
Those(excs, P(_)) == SelectSeq(excs, P)

\* the rows of fund f in a report
RowsOfFund(rows, f) == {r \in Range(rows) : r.fund_no = <<f>>}

CodesOfFund(f) == {EffectiveCode(r) : r \in RowsOfFund(current_rows, f)} \ {<<>>}

Level1OfFund(f) == {r.level_1 : r \in RowsOfFund(current_rows, f)} \ {<<>>}

Level2OfFund(f) == {r.level_2 : r \in RowsOfFund(current_rows, f)} \ {<<>>}

ComboOf(rule, f) == Those(exceptions_3[rule], LAMBDA e : e.fund_no = f)

\* C4: for every in-scope fund and every pairwise rule (3_gimel, 3_dalet,
\* 3_he, 3_zayin, 3_het): trigger present and required absent gives exactly
\* one exception (found trigger, missing required); required present and
\* trigger absent gives exactly one exception with the codes swapped; both
\* present or both absent gives none.
PairwiseSymmetry ==
    Done =>
        \A f \in in_scope_fund_ids, rule \in PairwiseRuleIds :
            LET trigger == PairRule(copy, rule)[1]
                required == PairRule(copy, rule)[2]
                has_trigger == trigger \in CodesOfFund(f)
                has_required == required \in CodesOfFund(f)
            IN ComboOf(rule, f) =
                 IF has_trigger /\ ~has_required
                 THEN <<[check_id |-> rule, fund_no |-> f,
                         found |-> <<trigger>>, missing |-> <<required>>]>>
                 ELSE IF has_required /\ ~has_trigger
                 THEN <<[check_id |-> rule, fund_no |-> f,
                         found |-> <<required>>, missing |-> <<trigger>>]>>
                 ELSE <<>>

\* C4 witness: a finished run in which an in-scope fund has the trigger
\* without the required code for one pairwise rule, the required code
\* without the trigger for another, and one exception was emitted for each.
PairwiseSymmetryWitness ==
    /\ Done
    /\ \E f \in in_scope_fund_ids, r1, r2 \in PairwiseRuleIds :
        /\ PairRule(copy, r1)[1] \in CodesOfFund(f)
        /\ PairRule(copy, r1)[2] \notin CodesOfFund(f)
        /\ PairRule(copy, r2)[2] \in CodesOfFund(f)
        /\ PairRule(copy, r2)[1] \notin CodesOfFund(f)
        /\ Len(ComboOf(r1, f)) = 1
        /\ Len(ComboOf(r2, f)) = 1

\* the two sides of the set-valued rules, as intersections with the rule's
\* value set of the fund
AlefTrigger(f) == {c0102, c0302, c0502} \cap Level2OfFund(f) # {}

AlefRequired(f) == \E c \in Level2OfFund(f) : StartsWith(c, c06)

BetHas03(f) == {c03, <<3>>} \cap Level1OfFund(f) # {}

BetHas07(f) == {c07, <<7>>} \cap Level1OfFund(f) # {}

BetHas08(f) == {c08, <<8>>} \cap Level1OfFund(f) # {}

VavTrigger(f) == {c03010202, c03010203} \cap CodesOfFund(f) # {}

VavRequired(f) == c080204 \in CodesOfFund(f)

\* C5 as stated: for every in-scope fund and each of 3_alef, 3_bet, 3_vav,
\* no exception when some trigger code and some required code are both
\* present, and an exception only when exactly one side is present.
SetRulesIntersection ==
    Done =>
        \A f \in in_scope_fund_ids :
            /\ (AlefTrigger(f) /\ AlefRequired(f)) => ComboOf("3_alef", f) = <<>>
            /\ ComboOf("3_alef", f) # <<>> => (AlefTrigger(f) # AlefRequired(f))
            /\ (BetHas03(f) /\ (BetHas07(f) \/ BetHas08(f))) => ComboOf("3_bet", f) = <<>>
            /\ ComboOf("3_bet", f) # <<>> => (BetHas03(f) # (BetHas07(f) \/ BetHas08(f)))
            /\ (VavTrigger(f) /\ VavRequired(f)) => ComboOf("3_vav", f) = <<>>
            /\ ComboOf("3_vav", f) # <<>> => (VavTrigger(f) # VavRequired(f))

\* C5 amended: 3_alef and 3_vav emit exactly when one side is present and
\* the other is not; 3_bet requires both 07 and 08 for 03: it emits when 03
\* is present and 07 or 08 is absent, or when 07 or 08 is present and 03 is
\* absent, and not otherwise.  No rule emits more than one exception a fund.
SetRulesAmended ==
    Done =>
        \A f \in in_scope_fund_ids :
            /\ ComboOf("3_alef", f) # <<>> <=> (AlefTrigger(f) # AlefRequired(f))
            /\ ComboOf("3_vav", f) # <<>> <=> (VavTrigger(f) # VavRequired(f))
            /\ ComboOf("3_bet", f) # <<>> <=>
                  \/ BetHas03(f) /\ ~(BetHas07(f) /\ BetHas08(f))
                  \/ ~BetHas03(f) /\ (BetHas07(f) \/ BetHas08(f))
            /\ \A rule \in {"3_alef", "3_bet", "3_vav"} : Len(ComboOf(rule, f)) <= 1

\* C5 witness: a finished run in which an in-scope fund has 03, 07 and 08 at
\* level 1 and rule 3_bet emitted nothing for it.
SetRulesWitness ==
    /\ Done
    /\ \E f \in in_scope_fund_ids :
        /\ BetHas03(f) /\ BetHas07(f) /\ BetHas08(f)
        /\ ComboOf("3_bet", f) = <<>>

\* the percentages a report can hold, in hundredths, and the one a float
\* was read from
PctValues ==
    {0, 100, 106, 200, 210, 220, 500, 610, 794, 1000, 1001, 1610, 2000, 3000,
     4000, 10100}

Written(d) == CHOOSE h \in PctValues : ToFloat(h) = d

KeyRow(r, f, code) ==
    r.fund_no = <<f>> /\ EffectiveCode(r) = code /\ r.percent_from_fund # None

\* the value of a key in a period as the report states it: the sum, in
\* hundredths, of the percentages written on the rows of the key
RECURSIVE PctSum(_, _, _)
PctSum(rows, f, code) ==
    IF rows = <<>> THEN 0
    ELSE (IF KeyRow(Head(rows), f, code)
          THEN Written(Head(rows).percent_from_fund[1]) ELSE 0)
         + PctSum(Tail(rows), f, code)

\* the value of a key in a period as a float: the rows added up in order
RECURSIVE FloatSum(_, _, _)
FloatSum(rows, f, code) ==
    IF rows = <<>> THEN FZero
    ELSE LET before == FloatSum(SubSeq(rows, 1, Len(rows) - 1), f, code)
             last == rows[Len(rows)]
         IN IF KeyRow(last, f, code)
            THEN FAdd(before, last.percent_from_fund[1]) ELSE before

KeyPresent(rows, f, code) == \E r \in Range(rows) : KeyRow(r, f, code)

\* the codes that occur in either report
AllCodes == {EffectiveCode(r) : r \in Range(current_rows) \cup Range(prev_rows)} \ {<<>>}

DeltaOf(f, code) == Those(exceptions_2a, LAMBDA e : e.fund_no = f /\ e.effective_code = code)

\* C6: for every key (fund, effective code) of an in-scope fund present in
\* both periods, exactly one deviation exception when |current - previous|
\* exceeds 10 percentage points (1000 hundredths) and no exception when it
\* does not; a delta of exactly 10 is not flagged.
DeltaThresholdBoundary ==
    Done =>
        \A f \in in_scope_fund_ids, code \in AllCodes :
            (KeyPresent(current_rows, f, code) /\ KeyPresent(prev_rows, f, code)) =>
                LET cur == PctSum(current_rows, f, code)
                    prv == PctSum(prev_rows, f, code)
                    d == IF cur >= prv THEN cur - prv ELSE prv - cur
                IN IF d > 1000
                   THEN /\ Len(DeltaOf(f, code)) = 1
                        /\ DeltaOf(f, code)[1].reason = "deviation"
                   ELSE DeltaOf(f, code) = <<>>

\* C7: for every key of an in-scope fund, a key present only in the current
\* period yields exactly one "new code" exception whose prev value is None, a
\* key present only in the previous period yields exactly one "code
\* disappeared" exception whose prev value is the previous period's value,
\* and no key yields more than one exception.
DeltaSymmetricDifference ==
    Done =>
        \A f \in in_scope_fund_ids, code \in AllCodes :
            LET in_cur == KeyPresent(current_rows, f, code)
                in_prev == KeyPresent(prev_rows, f, code)
                emitted == DeltaOf(f, code)
            IN /\ Len(emitted) <= 1
               /\ (in_cur /\ ~in_prev) =>
                     /\ Len(emitted) = 1
                     /\ emitted[1].reason = "new code"
                     /\ emitted[1].extra_info.prev_pct = None
               /\ (in_prev /\ ~in_cur) =>
                     /\ Len(emitted) = 1
                     /\ emitted[1].reason = "code disappeared"
                     /\ emitted[1].extra_info.prev_pct = <<FloatSum(prev_rows, f, code)>>

\* C7 witness: a finished run with a key only in the current period and a
\* key only in the previous period, each with its one exception.
DeltaSymmetricWitness ==
    /\ Done
    /\ \E f \in in_scope_fund_ids, a, b \in AllCodes :
        /\ KeyPresent(current_rows, f, a) /\ ~KeyPresent(prev_rows, f, a)
        /\ KeyPresent(prev_rows, f, b) /\ ~KeyPresent(current_rows, f, b)
        /\ Len(DeltaOf(f, a)) = 1
        /\ Len(DeltaOf(f, b)) = 1

IsScenario ==
    /\ all_funds = ScenarioFunds
    /\ current_rows = ScenarioCurrent
    /\ prev_rows = ScenarioPrevious

ScenarioFlags ==
    /\ \E i \in DOMAIN exceptions_1a :
          exceptions_1a[i] = [check_id |-> "1a", reason |-> "fund missing from report",
                              fund_no |-> 3]
    /\ \E i \in DOMAIN exceptions_2a :
          /\ exceptions_2a[i].fund_no = 1
          /\ exceptions_2a[i].effective_code = c080201
          /\ exceptions_2a[i].reason = "deviation"
          /\ exceptions_2a[i].extra_info.delta = <<ToFloat(2000)>>

\* C8 as stated: in the end-to-end scenario the completeness check flags
\* fund 3 as missing, the delta comparator flags (1, 080201) with delta 20
\* and emits nothing for fund 2.
EndToEndScenario ==
    (Done /\ IsScenario) =>
        /\ ScenarioFlags
        /\ \A i \in DOMAIN exceptions_2a : exceptions_2a[i].fund_no # 2

\* C8 amended: in the end-to-end scenario the completeness check flags only
\* fund 3 as missing, the delta comparator flags (1, 080201) with delta 20,
\* and for fund 2 it emits no deviation but exactly one "new code" exception
\* for (2, 080201).
EndToEndScenarioAmended ==
    (Done /\ IsScenario) =>
        /\ ScenarioFlags
        /\ Len(exceptions_1a) = 1
        /\ Len(exceptions_2a) = 2
        /\ Len(DeltaOf(2, c080201)) = 1
        /\ DeltaOf(2, c080201)[1].reason = "new code"
        /\ DeltaOf(2, c080201)[1].extra_info.prev_pct = None

\* C8 witness: the scenario has run to the end.
EndToEndWitness == Done /\ IsScenario /\ Len(exceptions_2a) = 2

Checked1a == kpc \notin {"scope", "check_1a"}

Of1a(reason, f) == Those(exceptions_1a, LAMBDA e : e.reason = reason /\ e.fund_no = f)

ReportHasFund(f) == \E r \in Range(current_rows) : r.fund_no = <<f>>

\* C9: check_1a emits exactly one "fund missing from report" exception for
\* each in-scope fund id without a record in the report and none for any
\* other fund id; with an empty report that is one per in-scope id.
CompletenessSymmetry ==
    Checked1a =>
        /\ \A f \in 1 .. MaxFund :
              Len(Of1a("fund missing from report", f)) =
                  IF f \in in_scope_fund_ids /\ ~ReportHasFund(f) THEN 1 ELSE 0
        /\ \A i \in DOMAIN exceptions_1a : exceptions_1a[i].fund_no \in 1 .. MaxFund
        /\ current_rows = <<>> =>
              /\ Len(exceptions_1a) = Cardinality(in_scope_fund_ids)
              /\ \A i \in DOMAIN exceptions_1a :
                    exceptions_1a[i].reason = "fund missing from report"

\* C9 witness: check_1a has run on a report that holds one in-scope fund and
\* lacks another, and flagged the absent one.
CompletenessWitness ==
    /\ Checked1a
    /\ \E f, g \in in_scope_fund_ids :
        /\ ReportHasFund(f)
        /\ ~ReportHasFund(g)
        /\ Len(Of1a("fund missing from report", g)) = 1
        /\ Len(Of1a("fund missing from report", f)) = 0

\* C10: check_1a emits exactly one "fund not in registry" exception for every
\* fund id of the report that is absent from the registry, and no exception
\* at all for a fund id of the report that is in the registry but out of
\* scope (another trustee).
UnknownFunds ==
    Checked1a =>
        \A f \in 1 .. MaxFund :
            /\ Len(Of1a("fund not in registry", f)) =
                  IF ReportHasFund(f) /\ f \notin DOMAIN all_funds THEN 1 ELSE 0
            /\ (ReportHasFund(f) /\ f \in DOMAIN all_funds /\ f \notin in_scope_fund_ids)
                  => \A i \in DOMAIN exceptions_1a : exceptions_1a[i].fund_no # f

\* C10 witness: check_1a has run on a report that holds a fund unknown to the
\* registry and a fund of another trustee; only the first was flagged.
UnknownFundsWitness ==
    /\ Checked1a
    /\ \E f, g \in 1 .. MaxFund :
        /\ ReportHasFund(f) /\ f \notin DOMAIN all_funds
        /\ ReportHasFund(g) /\ g \in DOMAIN all_funds /\ g \notin in_scope_fund_ids
        /\ Len(Of1a("fund not in registry", f)) = 1
        /\ \A i \in DOMAIN exceptions_1a : exceptions_1a[i].fund_no # g

\* the cap tables as data: a character that is not a key has no cap
EquityCaps ==
    ("0" :> 0) @@ ("1" :> 10) @@ ("2" :> 30) @@ ("3" :> 50) @@ ("4" :> 120) @@ ("5" :> 200)

FxCaps ==
    ("0" :> 0) @@ ("A" :> 10) @@ ("B" :> 30) @@ ("C" :> 50) @@ ("D" :> 120) @@ ("E" :> 200)
    @@ ("a" :> 10) @@ ("b" :> 30) @@ ("c" :> 50) @@ ("d" :> 120) @@ ("e" :> 200)

\* is a code counted on the axis ("equity": under 01; "fx": under 06, in the
\* mizrahi_5 copy without the breakdown branch 0602)
OnAxis(axis, code) ==
    IF axis = "equity" THEN StartsWith(code, <<0, 1>>)
    ELSE /\ StartsWith(code, <<0, 6>>)
         /\ copy = "mizrahi_5" => ~StartsWith(code, <<0, 6, 0, 2>>)

AxisRow(r, f, axis) ==
    /\ r.fund_no = <<f>>
    /\ EffectiveCode(r) # <<>>
    /\ OnAxis(axis, EffectiveCode(r))
    /\ r.percent_from_fund # None

\* the total of one axis as the report states it, in hundredths
RECURSIVE WrittenTotal(_, _, _)
WrittenTotal(rows, f, axis) ==
    IF rows = <<>> THEN 0
    ELSE (IF AxisRow(Head(rows), f, axis)
          THEN Written(Head(rows).percent_from_fund[1]) ELSE 0)
         + WrittenTotal(Tail(rows), f, axis)

\* the total of one axis as a float: the rows added up in order
RECURSIVE FloatTotal(_, _, _)
FloatTotal(rows, f, axis) ==
    IF rows = <<>> THEN FZero
    ELSE LET before == FloatTotal(SubSeq(rows, 1, Len(rows) - 1), f, axis)
             last == rows[Len(rows)]
         IN IF AxisRow(last, f, axis)
            THEN FAdd(before, last.percent_from_fund[1]) ELSE before

ExposureOf(f, axis) ==
    Those(exceptions_2b, LAMBDA e : e.fund_no = f /\ e.effective_code = axis)

ProfiledFunds ==
    {f \in in_scope_fund_ids :
        /\ ReportHasFund(f)
        /\ all_funds[f].exposure_profile # None
        /\ Len(all_funds[f].exposure_profile) >= 2}

\* C11: for every in-scope fund with records and a profile of at least two
\* characters, one equity exception exactly when the equity cap of the first
\* character is finite and the equity total exceeds it, one FX exception
\* exactly when the FX cap of the second character is finite and the FX
\* total exceeds it; a total equal to the cap is not flagged, and neither
\* axis depends on the other.
ExposureLimit ==
    Done =>
        \A f \in ProfiledFunds :
            LET profile == all_funds[f].exposure_profile
                equity_over ==
                    /\ profile[1] \in DOMAIN EquityCaps
                    /\ WrittenTotal(current_rows, f, "equity") > 100 * EquityCaps[profile[1]]
                fx_over ==
                    /\ profile[2] \in DOMAIN FxCaps
                    /\ WrittenTotal(current_rows, f, "fx") > 100 * FxCaps[profile[2]]
            IN /\ Len(ExposureOf(f, <<0, 1>>)) = (IF equity_over THEN 1 ELSE 0)
               /\ Len(ExposureOf(f, <<0, 6>>)) = (IF fx_over THEN 1 ELSE 0)

\* the same with the totals the floats add up to
ExposureLimitOnFloats ==
    Done =>
        \A f \in ProfiledFunds :
            LET profile == all_funds[f].exposure_profile
                equity_over ==
                    /\ profile[1] \in DOMAIN EquityCaps
                    /\ FLess(<<EquityCaps[profile[1]], 0, 0>>, FloatTotal(current_rows, f, "equity"))
                fx_over ==
                    /\ profile[2] \in DOMAIN FxCaps
                    /\ FLess(<<FxCaps[profile[2]], 0, 0>>, FloatTotal(current_rows, f, "fx"))
            IN /\ Len(ExposureOf(f, <<0, 1>>)) = (IF equity_over THEN 1 ELSE 0)
               /\ Len(ExposureOf(f, <<0, 6>>)) = (IF fx_over THEN 1 ELSE 0)

Checked1b == kpc \notin {"scope", "check_1a", "check_1b"}

DateOf(row_num) == Those(exceptions_1b, LAMBDA e : e.row_num = row_num)

\* C12: check_1b emits exactly one exception for each record of an in-scope
\* fund whose report date is absent ("missing report date") or whose year or
\* month differs from the expected ones ("date mismatch"), and none for an
\* in-scope record whose year and month both match nor for a record of an
\* out-of-scope fund.
TemporalValidity ==
    Checked1b =>
        /\ \A i \in DOMAIN current_rows :
            LET row == current_rows[i]
                in_scope == row.fund_no # None /\ row.fund_no[1] \in in_scope_fund_ids
                emitted == DateOf(row.row_num)
            IN IF in_scope /\ row.report_date = None
               THEN Len(emitted) = 1 /\ emitted[1].reason = "missing report date"
               ELSE IF in_scope /\ row.report_date # expected_month
               THEN /\ Len(emitted) = 1
                    /\ emitted[1].reason = "date mismatch"
                    /\ emitted[1].report_date = row.report_date
                    /\ emitted[1].expected = expected_month
               ELSE emitted = <<>>
        /\ \A j \in DOMAIN exceptions_1b :
              \E i \in DOMAIN current_rows : current_rows[i].row_num = exceptions_1b[j].row_num

\* C12 witness: check_1b has run on a report with an in-scope record of the
\* expected month in another year and a record of an out-of-scope fund with
\* no date; the first was flagged once and the second was not.
TemporalValidityWitness ==
    /\ Checked1b
    /\ \E i, j \in DOMAIN current_rows :
        /\ current_rows[i].fund_no = <<1>>
        /\ current_rows[i].report_date # None
        /\ current_rows[i].report_date[2] = expected_month[2]
        /\ current_rows[i].report_date[1] # expected_month[1]
        /\ Len(DateOf(current_rows[i].row_num)) = 1
        /\ current_rows[j].fund_no = <<2>>
        /\ current_rows[j].report_date = None
        /\ DateOf(current_rows[j].row_num) = <<>>

BoringInput == current_rows = <<>> /\ prev_rows = <<>>

\* C15 as stated: with an empty record set, whatever the registry and the
\* in-scope set, each of the five checkers returns an empty list.
BoringInputs ==
    (Done /\ BoringInput) =>
        /\ exceptions_1a = <<>>
        /\ exceptions_1b = <<>>
        /\ exceptions_2a = <<>>
        /\ exceptions_2b = <<>>
        /\ \A rule \in RuleIds : exceptions_3[rule] = <<>>

\* C15 amended: with empty record sets, check_1b, check_2a, check_2b and
\* check_3 return empty lists, and check_1a returns one "fund missing from
\* report" exception for each in-scope fund and nothing else, so its list is
\* empty exactly when no fund is in scope.
BoringInputsAmended ==
    (Done /\ BoringInput) =>
        /\ Len(exceptions_1a) = Cardinality(in_scope_fund_ids)
        /\ \A f \in in_scope_fund_ids : Len(Of1a("fund missing from report", f)) = 1
        /\ exceptions_1b = <<>>
        /\ exceptions_2a = <<>>
        /\ exceptions_2b = <<>>
        /\ DOMAIN exceptions_3 = RuleIds
        /\ \A rule \in RuleIds : exceptions_3[rule] = <<>>

\* C15 witness: a finished run on empty reports with two funds in scope.
BoringInputsWitness ==
    /\ Done
    /\ BoringInput
    /\ Cardinality(in_scope_fund_ids) >= 2
    /\ Len(exceptions_1a) >= 2

\* the ancestors of a code that have an entry in the index
KnownAncestors(code) ==
    {w \in {2, 4, 6, 8} : w <= Len(code) /\ SubSeq(code, 1, w) \in DOMAIN K303CodeIndex}

\* the words of the index
IndexWords == UNION {Range(K303CodeIndex[k]) : k \in DOMAIN K303CodeIndex}

Scoped == kpc # "scope"

TrusteeEqual(fund_id) ==
    NormSpaces(all_funds[fund_id].trustee_name) = NormSpaces(trustee_name)

ManagerMatches(fund_id) ==
    copy = "mizrahi_5" =>
        Contains(NormSpaces(all_funds[fund_id].manager_name), manager_name)

ScopeFilter ==
    Scoped =>
        \A fund_id \in DOMAIN all_funds :
            fund_id \in in_scope_fund_ids
                <=> (TrusteeEqual(fund_id) /\ ManagerMatches(fund_id))

\* the same statement for the two functions that compare by equality
ScopeFilterByEquality ==
    (Scoped /\ copy # "mizrahi_5") =>
        \A fund_id \in DOMAIN all_funds :
            fund_id \in in_scope_fund_ids <=> TrusteeEqual(fund_id)

\* ------------------------------------------------------------------------
\* Claims about checks #6 and #7 of the special-transactions run
\* ------------------------------------------------------------------------
\* the run is past check #6 part 1
PastPriceCheck == ppc \in {"price_limits", "lists", "check_7", "write", "written"}

PastLists == ppc \in {"check_7", "write", "written"}

\* C16: whichever way an oracle is unavailable (no browser library, a
\* browser that does not come up, a failing page, an unreadable cache), the
\* run is never terminated by it, a price check without its oracle leaves no
\* results, and a denylist check without any list leaves no results.
GracefulDegradation ==
    /\ ppc # "crashed"
    /\ (PastPriceCheck /\ ~selenium_available) => price_check_results = <<>>
    /\ (ppc \in {"write", "written"} /\ cache_state # "readable" /\ ~selenium_available)
           => problematic_security_results = <<>>

\* the samples the fetch loop has been through
Queried ==
    IF ppc = "fetch" THEN SubSeq(samples, 1, pidx - 1)
    ELSE IF PastPriceCheck THEN samples
    ELSE <<>>

Answered(txn) == FetchTaseClosingPrice(txn) # None

PriceVariance ==
    \A i \in 1 .. Len(price_check_results) :
        LET res == price_check_results[i]
            p == Written(res.row.price[1])
            r == Written(res.tase_closing_price)
            t == Written(variance_threshold)
        IN r > 0 => (res.is_exception <=> (p - r) * 10000 > t * r)

\* the part of the statement about prices that are not above the reference
PriceNotAboveNeverFlagged ==
    \A i \in 1 .. Len(price_check_results) :
        LET res == price_check_results[i]
        IN ~FLess(res.tase_closing_price, res.row.price[1]) => ~res.is_exception

\* ------------------------------------------------------------------------
\* Claims about the actor polling
\* ------------------------------------------------------------------------
ActorTerminated ==
    apc \in {"returned", "raised_failed", "raised_timeout", "raised_http"}

\* C20 (termination): every call of run_actor_and_wait / wait_for_run
\* eventually returns or raises.
ActorPollingTerminates == <>ActorTerminated

\* C20 (outcome): run data is returned only for an observed SUCCEEDED, a
\* poll that observed FAILED, ABORTED or TIMED-OUT is followed at once by the
\* error, and the timeout error is raised only when timeout seconds have
\* passed since start without a terminal status.
ActorPollingOutcome ==
    /\ apc = "returned" => status = <<"SUCCEEDED">>
    /\ run_data # None => (apc = "returned" /\ run_data = <<"SUCCEEDED">>)
    /\ (status # None /\ status[1] \in FailedStatuses)
           => apc \in {"check", "raised_failed"}
    /\ apc = "raised_failed" => status[1] \in FailedStatuses
    /\ apc = "raised_timeout"
           => /\ clock - start[1] >= timeout
              /\ status = None \/ status[1] \in {"READY", "RUNNING"}

\* ------------------------------------------------------------------------
\* Claims about the description loop
\* ------------------------------------------------------------------------
\* the k in 0..min(words(A), words(D)) for which the last k words of A are
\* the first k words of D
Overlaps(A, D) ==
    {k \in 0 .. Min2(Len(A), Len(D)) :
        \A i \in 1 .. k : A[Len(A) - k + i] = D[i]}

\* C21: after a merge of a non-empty accumulated description A with a
\* non-empty description D, the accumulated description is A followed by the
\* words of D after its first k words, k being the largest overlap of the end
\* of A with the start of D.
OverlapTrim ==
    dlast_merge # <<>> =>
        LET A == dlast_merge[1]
            D == dlast_merge[2]
            k == CHOOSE m \in Overlaps(A, D) : \A n \in Overlaps(A, D) : n <= m
        IN dcombined = A \o SubSeq(D, k + 1, Len(D))

\* "A B" merged with "B C" gave "A B C"
OverlapTrimWitness ==
    /\ dlast_merge = << <<"A", "B">>, <<"B", "C">> >>
    /\ dcombined = <<"A", "B", "C">>

\* the position of the first occurrence of a word
FirstAt(words, w) == CHOOSE i \in 1 .. Len(words) : words[i] = w /\ \A j \in 1 .. i - 1 : words[j] # w

\* C22: the returned description holds no word twice, its words are the
\* distinct words of the merged descriptions in order of first occurrence,
\* and removing duplicate words from it again changes nothing.
WholeStringDedup ==
    dpc = "returned" =>
        /\ \A i, j \in 1 .. Len(dresult) : i # j => dresult[i] # dresult[j]
        /\ Range(dresult) = Range(dcombined)
        /\ \A i, j \in 1 .. Len(dresult) :
              i < j => FirstAt(dcombined, dresult[i]) < FirstAt(dcombined, dresult[j])
        /\ RemoveDuplicateWords(dresult) = dresult

\* a word that came back in a later description, not next to its first
\* occurrence, was dropped
WholeStringDedupWitness ==
    /\ dpc = "returned"
    /\ dcombined = <<"A", "B", "A", "C">>
    /\ dresult = <<"A", "B", "C">>

\* ------------------------------------------------------------------------
\* C23: for every in-scope fund with records, rule 3_alef emits exactly when
\* the level-2 values of the fund hold one side of the rule and not the
\* other, rule 3_bet exactly when its level-1 values do, and each of 3_gimel
\* .. 3_het exactly when its effective codes do: the outcome of a rule is a
\* function of that one value set, whatever the other levels hold.
\* ------------------------------------------------------------------------
RuleEmits(rule, f) ==
    IF rule = "3_alef" THEN AlefTrigger(f) # AlefRequired(f)
    ELSE IF rule = "3_bet"
    THEN \/ BetHas03(f) /\ ~(BetHas07(f) /\ BetHas08(f))
         \/ ~BetHas03(f) /\ (BetHas07(f) \/ BetHas08(f))
    ELSE IF rule = "3_vav" THEN VavTrigger(f) # VavRequired(f)
    ELSE (PairRule(copy, rule)[1] \in CodesOfFund(f))
            # (PairRule(copy, rule)[2] \in CodesOfFund(f))

LevelScopedRules ==
    Done =>
        \A f \in in_scope_fund_ids, rule \in RuleIds :
            Len(ComboOf(rule, f)) = (IF RuleEmits(rule, f) THEN 1 ELSE 0)

\* a fund whose level-2 values hold 0302 while none of its effective codes
\* is 0302, and whose only 06 is a level-1 value: 3_alef asks for 06
LevelScopedRulesWitness ==
    /\ Done
    /\ \E f \in in_scope_fund_ids :
        /\ c0302 \in Level2OfFund(f)
        /\ c0302 \notin CodesOfFund(f)
        /\ c06 \in CodesOfFund(f)
        /\ Len(ComboOf("3_alef", f)) = 1
        /\ ComboOf("3_alef", f)[1].missing = <<c06>>

\* ------------------------------------------------------------------------
\* C24: in both copies a record under the breakdown branch 0602 adds nothing
\* to fx_total: the FX exception of a fund is present exactly when the sum of
\* its records under 06 and not under 0602 exceeds the FX cap, and reports
\* that sum; the equity exception likewise with the sum of its records under
\* 01.
\* ------------------------------------------------------------------------
InBranch(axis, code) ==
    IF axis = "equity" THEN StartsWith(code, <<0, 1>>)
    ELSE StartsWith(code, c06) /\ ~StartsWith(code, <<0, 6, 0, 2>>)

\* the sum of one branch as a float: the rows added up in order
RECURSIVE BranchTotal(_, _, _)
BranchTotal(rows, f, axis) ==
    IF rows = <<>> THEN FZero
    ELSE LET before == BranchTotal(SubSeq(rows, 1, Len(rows) - 1), f, axis)
             last == rows[Len(rows)]
         IN IF /\ last.fund_no = <<f>>
               /\ InBranch(axis, EffectiveCode(last))
               /\ last.percent_from_fund # None
            THEN FAdd(before, last.percent_from_fund[1]) ELSE before

NoFxDoubleCount ==
    Done =>
        \A f \in ProfiledFunds :
            LET profile == Strip(all_funds[f].exposure_profile)
                fx_total == BranchTotal(current_rows, f, "fx")
                equity_total == BranchTotal(current_rows, f, "equity")
                fx_over == /\ Len(profile) >= 2
                           /\ OverCap(FxCap(Upper(profile[2])), fx_total)
                equity_over == /\ Len(profile) >= 2
                               /\ OverCap(EquityCap(profile[1]), equity_total)
            IN /\ Len(ExposureOf(f, c06)) = (IF fx_over THEN 1 ELSE 0)
               /\ \A i \in DOMAIN ExposureOf(f, c06) :
                      ExposureOf(f, c06)[i].percent_from_fund = <<fx_total>>
               /\ Len(ExposureOf(f, <<0, 1>>)) = (IF equity_over THEN 1 ELSE 0)
               /\ \A i \in DOMAIN ExposureOf(f, <<0, 1>>) :
                      ExposureOf(f, <<0, 1>>)[i].percent_from_fund = <<equity_total>>

\* the same in the mizrahi_5 copy alone
NoFxDoubleCountMizrahi5 == copy = "mizrahi_5" => NoFxDoubleCount

\* mizrahi_5: a fund with a record under 0602 and an FX exception whose
\* total leaves that record out
NoFxDoubleCountMizrahi5Witness ==
    /\ Done
    /\ copy = "mizrahi_5"
    /\ \E i \in DOMAIN current_rows :
          /\ current_rows[i].fund_no = <<1>>
          /\ StartsWith(EffectiveCode(current_rows[i]), <<0, 6, 0, 2>>)
    /\ Len(ExposureOf(1, c06)) = 1
    /\ ExposureOf(1, c06)[1].percent_from_fund = <<ToFloat(1001)>>

\* ------------------------------------------------------------------------
\* C25: the first pass takes min(n, max(1, round(n / N * max_count))) from a
\* stratum of n exceptions out of N: the proportional target rounded to the
\* nearest integer, at least 1.
\* ------------------------------------------------------------------------
\* round(num / den): the nearest integer, a tie going to the even one
RoundNearest(num, den) ==
    LET q == num \div den
        twice == 2 * (num % den)
    IN IF twice < den THEN q
       ELSE IF twice > den THEN q + 1
       ELSE IF q % 2 = 0 THEN q ELSE q + 1

StratumSize(i) == Len(ByReason(exceptions, ReasonKeys(exceptions)[i]))

SamplerAllocation ==
    \A i \in DOMAIN first_pass :
        first_pass[i] =
            Min2(StratumSize(i),
                 Max2(1, RoundNearest(StratumSize(i) * max_count, Len(exceptions))))

\* C25 as the code has it: the first pass takes
\* min(n, max(1, int(n / N * max_count))), the proportional target truncated
\* toward zero, at least 1.
SamplerAllocationTruncated ==
    \A i \in DOMAIN first_pass :
        first_pass[i] =
            Min2(StratumSize(i),
                 Max2(1, (StratumSize(i) * max_count) \div Len(exceptions)))

\* a stratum of 2 out of 6 with max_count 5: 1.67 is cut to 1
SamplerAllocationWitness ==
    /\ Len(exceptions) = 6
    /\ max_count = 5
    /\ \E i \in DOMAIN first_pass : StratumSize(i) = 2 /\ first_pass[i] = 1

\* ------------------------------------------------------------------------
\* C26: in each period the value of a key (fund, effective code) of an
\* in-scope fund is the sum of the values of all its records: a key is
\* present in a period when some record of it carries a value, the deviation
\* test is made on the difference of the two sums, and every exception
\* reports the sums, never the value of one row among several.
\* ------------------------------------------------------------------------
DeltaAggregation ==
    Done =>
        \A f \in in_scope_fund_ids, code \in AllCodes :
            LET in_cur == KeyPresent(current_rows, f, code)
                in_prev == KeyPresent(prev_rows, f, code)
                cur == FloatSum(current_rows, f, code)
                prv == FloatSum(prev_rows, f, code)
                emitted == DeltaOf(f, code)
            IN /\ (in_cur /\ in_prev) =>
                    /\ emitted # <<>> <=> FLess(DeltaThreshold, FAbsDiff(cur, prv))
                    /\ \A i \in DOMAIN emitted :
                          emitted[i].extra_info.delta = <<FAbsDiff(cur, prv)>>
               /\ \A i \in DOMAIN emitted :
                    /\ emitted[i].percent_from_fund = (IF in_cur THEN <<cur>> ELSE None)
                    /\ emitted[i].extra_info.prev_pct = (IF in_prev THEN <<prv>> ELSE None)
               /\ (~in_cur /\ ~in_prev) => emitted = <<>>

\* two current rows of one key, 10.00 and 10.01, against a previous 10.00:
\* no row is more than 10 points from the previous value, their sum is
DeltaAggregationWitness ==
    /\ Done
    /\ current_rows = Numbered(<<Row080201(<<1>>, <<ToFloat(1000)>>),
                                 Row080201(<<1>>, <<ToFloat(1001)>>)>>)
    /\ prev_rows = Numbered(<<Row080201(<<1>>, <<ToFloat(1000)>>)>>)
    /\ Len(DeltaOf(1, c080201)) = 1
    /\ DeltaOf(1, c080201)[1].reason = "deviation"
    /\ DeltaOf(1, c080201)[1].percent_from_fund =
          <<FAdd(ToFloat(1000), ToFloat(1001))>>

\* ------------------------------------------------------------------------
\* C27: for each index id at most two requests are made, the second only
\* after a 429 answer to the first; whatever the second brings, the loop
\* goes on to the next index id, and the function returns after at most
\* 2 * len(index_ids) requests.
\* ------------------------------------------------------------------------
RECURSIVE SumSeq(_)
SumSeq(q) == IF q = <<>> THEN 0 ELSE Head(q) + SumSeq(Tail(q))

RetryBound ==
    /\ \A i \in DOMAIN index_ids :
        /\ irequests[i] <= 2
        /\ irequests[i] = 2 => ifirst[i] = <<"429">>
        /\ i > iidx => irequests[i] = 0
    /\ SumSeq(irequests) <= 2 * Len(index_ids)
    /\ ipc = "retry" => irequests[iidx] = 1 /\ ifirst[iidx] = <<"429">>

BoundedRateLimitRetry == []RetryBound /\ <>(ipc = "returned")

\* a returned call in which an index id was rate-limited twice (two
\* requests, no data) and the index id after it was fetched
BoundedRateLimitRetryWitness ==
    /\ ipc = "returned"
    /\ \E i \in DOMAIN index_ids :
        /\ irequests[i] = 2
        /\ i + 1 \in DOMAIN index_ids
        /\ irequests[i + 1] = 1
        /\ idata # <<>>
    /\ SumSeq(irequests) = 2 * Len(index_ids) - 1

\* ------------------------------------------------------------------------
\* C28: each sample is a row of an in-scope fund with the decision method of
\* its stratum that no check of the run (1, 3, 4, 4c, 6, 7) has flagged; a
\* stratum has at most one sample, and none exactly when no such row exists.
\* ------------------------------------------------------------------------
SpotChecked == mpc = "checked"

EarlyFlagged ==
    {e.row.row_num : e \in Range(mex_dup \o mex_date \o mex_decision \o mex_price_type)}

LaterFlagged ==
    {e.row.row_num : e \in {x \in Range(mprice_checks) : x.is_exception}}
    \cup {r.row_num : r \in Range(mprice_limits)}
    \cup {e.row.row_num : e \in Range(mproblematic)}

\* the rows a stratum may be sampled from, given the flagged row numbers
Candidates(decision_method, flagged) ==
    {r \in Range(InScopeRows(mrows, min_scope_funds)) :
        r.decision_method = <<decision_method>> /\ r.row_num \notin flagged}

SampleFrom(sample, decision_method, flagged) ==
    /\ Len(sample) <= 1
    /\ sample # None => sample[1] \in Candidates(decision_method, flagged)
    /\ sample = None <=> Candidates(decision_method, flagged) = {}

SamplesNotSuspect ==
    SpotChecked =>
        /\ SampleFrom(msamples.decision_1, 1, EarlyFlagged \cup LaterFlagged)
        /\ SampleFrom(msamples.decision_2, 2, EarlyFlagged \cup LaterFlagged)

\* what holds: the samples avoid the rows flagged by checks 1, 3, 4 and 4c
SamplesNotFlaggedBefore ==
    SpotChecked =>
        /\ SampleFrom(msamples.decision_1, 1, EarlyFlagged)
        /\ SampleFrom(msamples.decision_2, 2, EarlyFlagged)

SamplesNotFlaggedBeforeWitness ==
    /\ SpotChecked
    /\ msamples.decision_2 # None
    /\ msamples.decision_2[1].row_num \in LaterFlagged
    /\ EarlyFlagged # {}

\* ------------------------------------------------------------------------
\* C29: at every point of smart_sample_exceptions (first pass, fill, trim,
\* return) each element of the list under construction is an exception of
\* the input and none occurs twice; so it is for the returned list.  The
\* exceptions of an input list differ in their row numbers, so an element
\* names its position.
\* ------------------------------------------------------------------------
WithoutRepeats(q) == \A i, j \in DOMAIN q : i # j => q[i] # q[j]

SamplingWithoutReplacement ==
    /\ WithoutRepeats(sampled)
    /\ Range(sampled) \subseteq Range(exceptions)
    /\ Returned =>
          /\ WithoutRepeats(result[1])
          /\ Range(result[1]) \subseteq Range(exceptions)

\* a returned sample to which the first pass and the fill step both gave
SamplingWithoutReplacementWitness ==
    /\ Returned
    /\ Sampling
    /\ SumSeq(first_pass) < Len(result[1])
    /\ Len(result[1]) = max_count
    /\ max_count >= 3

\* ------------------------------------------------------------------------
\* C30: every exception of check_1b, check_2a, check_2b and check_3 names a
\* fund of the in-scope id set, and the four lists are what the checkers
\* return on the reports with the records of all other funds (and of no
\* fund) taken out: records outside the scope have no effect on them.
\* ------------------------------------------------------------------------
WithinScope(rows) ==
    SelectSeq(rows, LAMBDA r : r.fund_no # None /\ r.fund_no[1] \in in_scope_fund_ids)

FundsNamed(excs) == {excs[i].fund_no : i \in DOMAIN excs}

ScopeConfinement ==
    Done =>
        /\ FundsNamed(exceptions_1b \o exceptions_2a \o exceptions_2b)
              \subseteq in_scope_fund_ids
        /\ \A rule \in RuleIds : FundsNamed(exceptions_3[rule]) \subseteq in_scope_fund_ids
        /\ exceptions_1b = Check1bReportMonthValidity(WithinScope(current_rows),
                                                      expected_month, in_scope_fund_ids)
        /\ exceptions_2a = Check2aPrevMonthComparison(WithinScope(current_rows),
                                                      WithinScope(prev_rows),
                                                      in_scope_fund_ids)
        /\ exceptions_2b = Check2bExposureProfile(copy, WithinScope(current_rows),
                                                  all_funds, in_scope_fund_ids)
        /\ exceptions_3 = Check3Combinations(copy, WithinScope(current_rows),
                                             in_scope_fund_ids)

\* a finished run in which every checker has flagged fund 1, with a record
\* of fund 2 in the current report and a record of no fund in the previous
ScopeConfinementWitness ==
    /\ Done
    /\ in_scope_fund_ids = {1}
    /\ exceptions_1b # <<>>
    /\ exceptions_2a # <<>>
    /\ exceptions_2b # <<>>
    /\ exceptions_3["3_alef"] # <<>>
    /\ exceptions_3["3_bet"] # <<>>
    /\ \E i \in DOMAIN current_rows : current_rows[i].fund_no = <<2>>
    /\ \E i \in DOMAIN prev_rows : prev_rows[i].fund_no = None

====
